---- MODULE Spec2Model ----
(***************************************************************************)
(* Model of the chess-master board core: the Board object (bitboards,      *)
(* piece list, GameState, History), Board.makeMove / Board.undoMove, the   *)
(* Zobrist keying, the move generator of chessLogic.js and the legal-move  *)
(* lists and draw test of Player / BotPlayer.                              *)
(*                                                                         *)
(* A BitBoard is modelled by the set of squares whose bit is set (setBit,  *)
(* clearBit, getBit, getLSB and popLSB act on it as on the two 32-bit      *)
(* words).  A Zobrist key is modelled by the set of seed-table entries     *)
(* whose XOR it is: XOR-ing a seed in toggles the membership of its table  *)
(* index (the 803 seeds of gameConstants.js are pairwise distinct).        *)
(* A UI [row, col] pair is the tuple <<row, col>>; JavaScript null is the  *)
(* value null; moveInfo.castlingRook is <<>> for null and <<from, to>>     *)
(* for {from, to}.                                                         *)
(***************************************************************************)
EXTENDS Integers, Sequences, FiniteSets, TLC

\* ------------------------------------------------------------ constants
KING == 0
QUEEN == 1
ROOK == 2
BISHOP == 3
KNIGHT == 4
PAWN == 5
NONE == 6

WHITE_IDX == 0
BLACK_IDX == 1

WHITE_KINGSIDE == 1
WHITE_QUEENSIDE == 2
BLACK_KINGSIDE == 4
BLACK_QUEENSIDE == 8
CASTLING_ALL == 15

null == -1

Squares == 0..63
Kinds == KING..PAWN

\* ------------------------------------------------------------ bitboard.js
colorToIndex(color) == IF color = "white" THEN WHITE_IDX ELSE BLACK_IDX

rowColToIndex(row, col) == (7 - row) * 8 + col

indexToRowCol(index) == <<7 - (index \div 8), index % 8>>

\* squareToIndex('a1'), ('h1'), ('a8'), ('h8'): rank * 8 + file
SQ_A1 == 0
SQ_H1 == 7
SQ_A8 == 56
SQ_H8 == 63

getLSB(bb) == IF bb = {} THEN -1 ELSE CHOOSE s \in bb : \A t \in bb : s <= t

getPieceColor(bbSide, square) ==
  IF square < 0 \/ square >= 64 THEN "none"
  ELSE IF square \in bbSide[WHITE_IDX] THEN "white"
  ELSE IF square \in bbSide[BLACK_IDX] THEN "black"
  ELSE "none"

\* the squares of a bitboard in the order popLSB drains them
RECURSIVE drain(_)
drain(bb) == IF bb = {} THEN <<>> ELSE <<getLSB(bb)>> \o drain(bb \ {getLSB(bb)})

initializeBitboards ==
  LET home(c) == [k \in Kinds |->
        LET r == IF c = WHITE_IDX THEN 0 ELSE 56
        IN CASE k = PAWN -> IF c = WHITE_IDX THEN 8..15 ELSE 48..55
             [] k = ROOK -> {r, r + 7}
             [] k = KNIGHT -> {r + 1, r + 6}
             [] k = BISHOP -> {r + 2, r + 5}
             [] k = QUEEN -> {r + 3}
             [] k = KING -> {r + 4}]
      bbP == [c \in {WHITE_IDX, BLACK_IDX} |-> home(c)]
  IN [bbPieces |-> bbP,
      bbSide |-> [c \in {WHITE_IDX, BLACK_IDX} |-> UNION {bbP[c][k] : k \in Kinds}]]

initializePieceList ==
  LET back == <<ROOK, KNIGHT, BISHOP, QUEEN, KING, BISHOP, KNIGHT, ROOK>>
  IN [s \in Squares |->
        IF s < 8 THEN back[s + 1]
        ELSE IF s < 16 THEN PAWN
        ELSE IF s >= 56 THEN back[s - 56 + 1]
        ELSE IF s >= 48 THEN PAWN
        ELSE NONE]

\* ------------------------------------------------------------ Zobrist seeds
\* index of a seed in the flattened ZOBRIST_SEEDS table (803 entries)
SeedPiece(c, k, sq) == c * 384 + k * 64 + sq
SeedCastling(mask) == 768 + mask
SeedSide(i) == 784 + i
SeedEnPassant(i) == 786 + i

\* key ^= seed
XorSeed(key, seed) == IF seed \in key THEN key \ {seed} ELSE key \cup {seed}

\* castling &= ~mask, on the 4-bit castling mask
HasBit(c, bit) == (c \div bit) % 2 = 1

AndNot(c, mask) ==
  LET keep(bit) == IF HasBit(c, bit) /\ ~HasBit(mask, bit) THEN bit ELSE 0
  IN keep(1) + keep(2) + keep(4) + keep(8)

\* ------------------------------------------------------------ GameState, History
NewGameState ==
  [active_color |-> "white", castling |-> CASTLING_ALL, half_move_clock |-> 0,
   en_passant_sq |-> -1, full_move_count |-> 1, next_move |-> null,
   zobrist_key |-> {}]

NewHistory == [states |-> <<>>, moves |-> <<>>]

HistoryPush(h, gameState, moveInfo) ==
  [states |-> Append(h.states, gameState), moves |-> Append(h.moves, moveInfo)]

HistoryPop(h) ==
  [states |-> SubSeq(h.states, 1, Len(h.states) - 1),
   moves |-> IF Len(h.moves) = 0 THEN h.moves ELSE SubSeq(h.moves, 1, Len(h.moves) - 1)]

\* ------------------------------------------------------------ Board: Zobrist
getEnPassantZobristIndex(enPassantSq) ==
  IF enPassantSq = -1 THEN 16
  ELSE IF enPassantSq \div 8 = 2 THEN enPassantSq % 8
  ELSE IF enPassantSq \div 8 = 5 THEN 8 + (enPassantSq % 8)
  ELSE 16

zobristInit(bbPieces, gameState) ==
  LET h1 == UNION {{SeedPiece(c, k, sq) : sq \in bbPieces[c][k]} :
                     c \in {WHITE_IDX, BLACK_IDX}, k \in Kinds}
      h2 == XorSeed(h1, SeedCastling(gameState.castling))
      h3 == XorSeed(h2, SeedSide(IF gameState.active_color = "black" THEN 1 ELSE 0))
      ep == gameState.en_passant_sq
  IN IF ep # -1
     THEN IF ep \div 8 = 2 THEN XorSeed(h3, SeedEnPassant(ep % 8))
          ELSE IF ep \div 8 = 5 THEN XorSeed(h3, SeedEnPassant(8 + (ep % 8)))
          ELSE h3
     ELSE XorSeed(h3, SeedEnPassant(16))

NewBoard ==
  LET bb == initializeBitboards
  IN [bbPieces |-> bb.bbPieces, bbSide |-> bb.bbSide, pieceList |-> initializePieceList,
      gameState |-> [NewGameState EXCEPT !.zobrist_key = zobristInit(bb.bbPieces, NewGameState)],
      history |-> NewHistory]

\* ------------------------------------------------------------ Board.makeMove
Falsy(p) == p = null \/ p = 0

\* a makeMove that resets the clock on pawn moves only
halfMoveClockAfterPawnOnly(clock, movingPiece, capturedPiece) == IF movingPiece = PAWN THEN 0 ELSE clock + 1

\* lines 574-593: the half-move clock after the move
halfMoveClockAfter(clock, movingPiece, capturedPiece) ==
  IF movingPiece = PAWN THEN 0
  ELSE IF capturedPiece # NONE THEN 0
  ELSE clock + 1

\* lines 596-619: the square of the pawn captured en passant, or null
enPassantCaptureSquare(pieceList, bbSide, previousEnPassantSq, movingPiece, capturedPiece, oppositeColor, fromSquare, toSquare) ==
  LET fromRank == fromSquare \div 8
      fromFile == fromSquare % 8
      toRank == toSquare \div 8
      toFile == toSquare % 8
      abs(x) == IF x < 0 THEN -x ELSE x
      isdiagonalMove == abs(fromFile - toFile) = 1 /\ abs(fromRank - toRank) = 1
      captureSquare == fromRank * 8 + toFile
  IN IF movingPiece = PAWN /\ previousEnPassantSq # -1
        /\ isdiagonalMove /\ capturedPiece = NONE
        /\ pieceList[captureSquare] = PAWN
        /\ getPieceColor(bbSide, captureSquare) = oppositeColor
     THEN captureSquare
     ELSE null

\* a makeMove that sets en_passant_sq behind the destination of every move
enPassantSqAfterAnyMove(movingPiece, movingColor, fromSquare, toSquare) ==
  IF movingColor = "white" THEN toSquare + 8 ELSE toSquare - 8

\* lines 622-633 and 640-643: en_passant_sq after the move
enPassantSqAfter(movingPiece, movingColor, fromSquare, toSquare) ==
  LET fromRank == fromSquare \div 8
      toRank == toSquare \div 8
      rankDiff == IF fromRank < toRank THEN toRank - fromRank ELSE fromRank - toRank
  IN IF movingPiece = PAWN /\ rankDiff = 2
     THEN (IF movingColor = "white" THEN toSquare + 8 ELSE toSquare - 8)
     ELSE -1

\* lines 635-639: the piece that lands on the destination
finalPieceOf(movingPiece, movingColor, toSquare, promotionPiece) ==
  LET toRank == toSquare \div 8
  IN IF movingPiece = PAWN
        /\ ((movingColor = "white" /\ toRank = 7) \/ (movingColor = "black" /\ toRank = 0))
     THEN (IF Falsy(promotionPiece) THEN QUEEN ELSE promotionPiece)
     ELSE movingPiece

\* lines 646-652: a king move removes both rights of the mover
castlingAfterKingMove(castling, movingPiece, movingColor) ==
  IF movingPiece = KING
  THEN (IF movingColor = "white"
        THEN AndNot(castling, WHITE_KINGSIDE + WHITE_QUEENSIDE)
        ELSE AndNot(castling, BLACK_KINGSIDE + BLACK_QUEENSIDE))
  ELSE castling

\* a makeMove whose rook moves leave the castling rights alone
castlingAfterRookMoveKept(castling, movingPiece, movingColor, fromSquare) == castling

\* lines 692-707: a rook leaving its corner
castlingAfterRookMove(castling, movingPiece, movingColor, fromSquare) ==
  IF movingPiece = ROOK
  THEN (IF movingColor = "white"
        THEN (IF fromSquare = SQ_A1 THEN AndNot(castling, WHITE_QUEENSIDE)
              ELSE IF fromSquare = SQ_H1 THEN AndNot(castling, WHITE_KINGSIDE)
              ELSE castling)
        ELSE (IF fromSquare = SQ_A8 THEN AndNot(castling, BLACK_QUEENSIDE)
              ELSE IF fromSquare = SQ_H8 THEN AndNot(castling, BLACK_KINGSIDE)
              ELSE castling))
  ELSE castling

\* lines 709-720: a rook captured on a corner
castlingAfterRookCapture(castling, capturedPiece, toSquare) ==
  IF capturedPiece = ROOK
  THEN (IF toSquare = SQ_A1 THEN AndNot(castling, WHITE_QUEENSIDE)
        ELSE IF toSquare = SQ_H1 THEN AndNot(castling, WHITE_KINGSIDE)
        ELSE IF toSquare = SQ_A8 THEN AndNot(castling, BLACK_QUEENSIDE)
        ELSE IF toSquare = SQ_H8 THEN AndNot(castling, BLACK_KINGSIDE)
        ELSE castling)
  ELSE castling

\* lines 646-652, 692-707, 709-720 in the order of the code
castlingAfterMove(castling, movingPiece, capturedPiece, movingColor, fromSquare, toSquare) ==
  castlingAfterRookCapture(
    castlingAfterRookMove(
      castlingAfterKingMove(castling, movingPiece, movingColor),
      movingPiece, movingColor, fromSquare),
    capturedPiece, toSquare)

\* lines 654-689: the rook transfer of a castling move, <<rookFrom, rookTo>> or <<>>
castlingRookOf(movingPiece, fromSquare, toSquare) ==
  LET fileDiff == (toSquare % 8) - (fromSquare % 8)
      rank == fromSquare \div 8
  IN IF movingPiece = KING /\ (fileDiff = 2 \/ fileDiff = -2)
     THEN (IF fileDiff > 0 THEN <<rank * 8 + 7, rank * 8 + 5>> ELSE <<rank * 8, rank * 8 + 3>>)
     ELSE <<>>

\* lines 735-755: the key after the en-passant, castling and side updates
zobristStateUpdate(key, previousEnPassantSq, newEnPassantSq, previousCastling, newCastling, movingColor, oppositeColor) ==
  LET k1 == IF previousEnPassantSq # newEnPassantSq
            THEN XorSeed(XorSeed(key, SeedEnPassant(getEnPassantZobristIndex(previousEnPassantSq))),
                         SeedEnPassant(getEnPassantZobristIndex(newEnPassantSq)))
            ELSE key
      k2 == IF previousCastling # newCastling
            THEN XorSeed(XorSeed(k1, SeedCastling(previousCastling)), SeedCastling(newCastling))
            ELSE k1
      k3 == XorSeed(k2, SeedSide(IF movingColor = "white" THEN 0 ELSE 1))
  IN XorSeed(k3, SeedSide(IF oppositeColor = "white" THEN 0 ELSE 1))

\* lines 530-532: the key is computed on the first move if it is still zero
ensureZobristKey(b) ==
  IF b.gameState.zobrist_key = {}
  THEN [b EXCEPT !.gameState.zobrist_key = zobristInit(b.bbPieces, b.gameState)]
  ELSE b

\* lines 535-549: the move record is pushed with the state before the move
pushMoveInfo(b, fromSquare, toSquare, promotionPiece) ==
  [b EXCEPT !.history = HistoryPush(@, b.gameState,
      [from |-> fromSquare, to |-> toSquare, movingPiece |-> b.pieceList[fromSquare],
       capturedPiece |-> b.pieceList[toSquare], enPassantCapture |-> null,
       castlingRook |-> <<>>, promotionPiece |-> promotionPiece,
       oldEnPassantSq |-> b.gameState.en_passant_sq, oldCastling |-> b.gameState.castling])]

\* lines 566-572: the moving piece leaves the source square
clearSource(b, movingColorIdx, movingPiece, fromSquare) ==
  [b EXCEPT !.gameState.zobrist_key = XorSeed(@, SeedPiece(movingColorIdx, movingPiece, fromSquare)),
            !.bbPieces[movingColorIdx][movingPiece] = @ \ {fromSquare},
            !.bbSide[movingColorIdx] = @ \ {fromSquare},
            !.pieceList[fromSquare] = NONE]

\* lines 574-593: a captured piece leaves the destination square
removeCaptured(b, oppositeColorIdx, capturedPiece, toSquare) ==
  IF capturedPiece # NONE
  THEN [b EXCEPT !.gameState.zobrist_key =
                    XorSeed(@, SeedPiece(oppositeColorIdx, capturedPiece, toSquare)),
                 !.bbPieces[oppositeColorIdx][capturedPiece] = @ \ {toSquare},
                 !.bbSide[oppositeColorIdx] = @ \ {toSquare}]
  ELSE b

\* lines 596-619: the pawn captured en passant leaves the board and is noted in the record
removeEnPassantPawn(b, oppositeColorIdx, captureSquare) ==
  IF captureSquare # null
  THEN [b EXCEPT !.gameState.zobrist_key = XorSeed(@, SeedPiece(oppositeColorIdx, PAWN, captureSquare)),
                 !.bbPieces[oppositeColorIdx][PAWN] = @ \ {captureSquare},
                 !.bbSide[oppositeColorIdx] = @ \ {captureSquare},
                 !.pieceList[captureSquare] = NONE,
                 !.history.moves[Len(b.history.moves)].enPassantCapture = captureSquare]
  ELSE b

\* lines 596-619 on the board as it is after the capture step
captureEnPassant(b, oppositeColorIdx, movingPiece, capturedPiece, oppositeColor, fromSquare, toSquare) ==
  removeEnPassantPawn(b, oppositeColorIdx,
    enPassantCaptureSquare(b.pieceList, b.bbSide, b.gameState.en_passant_sq,
                           movingPiece, capturedPiece, oppositeColor, fromSquare, toSquare))

\* lines 654-689: the rook of a castling move is transferred and noted in the record
moveCastlingRook(b, movingColorIdx, rook) ==
  IF rook # <<>>
  THEN [b EXCEPT !.gameState.zobrist_key =
                    XorSeed(XorSeed(@, SeedPiece(movingColorIdx, ROOK, rook[1])),
                            SeedPiece(movingColorIdx, ROOK, rook[2])),
                 !.bbPieces[movingColorIdx][ROOK] = (@ \ {rook[1]}) \cup {rook[2]},
                 !.bbSide[movingColorIdx] = (@ \ {rook[1]}) \cup {rook[2]},
                 !.pieceList[rook[1]] = NONE,
                 !.pieceList[rook[2]] = ROOK,
                 !.history.moves[Len(b.history.moves)].castlingRook = rook]
  ELSE b

\* lines 722-728: the final piece lands on the destination square
placePiece(b, movingColorIdx, finalPiece, toSquare) ==
  [b EXCEPT !.gameState.zobrist_key = XorSeed(@, SeedPiece(movingColorIdx, finalPiece, toSquare)),
            !.bbPieces[movingColorIdx][finalPiece] = @ \cup {toSquare},
            !.bbSide[movingColorIdx] = @ \cup {toSquare},
            !.pieceList[toSquare] = finalPiece]

\* lines 574-593, 622-652, 692-720 and 730-755: the fields of gameState after the move
updateGameState(b, movingPiece, capturedPiece, movingColor, oppositeColor, fromSquare, toSquare) ==
  [b EXCEPT !.gameState =
     [@ EXCEPT
        !.half_move_clock = halfMoveClockAfter(@, movingPiece, capturedPiece),
        !.en_passant_sq = enPassantSqAfter(movingPiece, movingColor, fromSquare, toSquare),
        !.castling = castlingAfterMove(@, movingPiece, capturedPiece, movingColor,
                                       fromSquare, toSquare),
        !.full_move_count = IF movingColor = "black" THEN @ + 1 ELSE @,
        !.zobrist_key =
           zobristStateUpdate(@, b.gameState.en_passant_sq,
             enPassantSqAfter(movingPiece, movingColor, fromSquare, toSquare),
             b.gameState.castling,
             castlingAfterMove(b.gameState.castling, movingPiece, capturedPiece, movingColor,
                               fromSquare, toSquare),
             movingColor, oppositeColor),
        !.active_color = oppositeColor]]

\* Board.makeMove(fromSquare, toSquare, promotionPiece = null): [ret, board]
\* a rejection that would come after the game state was saved to the history
rejectedAfterPush(b) == [ret |-> FALSE, board |-> [b EXCEPT !.history.states = Append(@, b.gameState)]]

\* return false before anything is written
rejected(b) == [ret |-> FALSE, board |-> b]

makeMove(b, fromSquare, toSquare, promotionPiece) ==
  IF fromSquare < 0 \/ fromSquare >= 64 \/ toSquare < 0 \/ toSquare >= 64
  THEN rejected(b)
  ELSE
  LET movingPiece == b.pieceList[fromSquare]
      capturedPiece == b.pieceList[toSquare]
      movingColor == b.gameState.active_color
      oppositeColor == IF b.gameState.active_color = "white" THEN "black" ELSE "white"
      movingColorIdx == colorToIndex(b.gameState.active_color)
      oppositeColorIdx == colorToIndex(IF b.gameState.active_color = "white" THEN "black" ELSE "white")
  IN [ret |-> TRUE,
      board |->
        updateGameState(
          placePiece(
            moveCastlingRook(
              captureEnPassant(
                removeCaptured(
                  clearSource(
                    pushMoveInfo(ensureZobristKey(b), fromSquare, toSquare, promotionPiece),
                    movingColorIdx, movingPiece, fromSquare),
                  oppositeColorIdx, capturedPiece, toSquare),
                oppositeColorIdx, movingPiece, capturedPiece, oppositeColor,
                fromSquare, toSquare),
              movingColorIdx, castlingRookOf(movingPiece, fromSquare, toSquare)),
            movingColorIdx, finalPieceOf(movingPiece, movingColor, toSquare, promotionPiece),
            toSquare),
          movingPiece, capturedPiece, movingColor, oppositeColor, fromSquare, toSquare)]

\* ------------------------------------------------------------ Board.undoMove
\* line 787: the piece undoMove takes off the destination square
undoDestinationPiece(promotionPiece, movingPiece) ==
  IF Falsy(promotionPiece) THEN movingPiece ELSE promotionPiece

\* the piece undoMove puts back on the source square
undoRestoredPiece(promotionPiece, movingPiece) ==
  IF Falsy(promotionPiece) THEN movingPiece ELSE PAWN

\* the moved piece goes back from the destination to the source square
restoreMovedPiece(b, movingColorIdx, pieceAtDestination, restoredPiece, from, to) ==
  [b EXCEPT !.bbPieces[movingColorIdx] =
               [[@ EXCEPT ![pieceAtDestination] = @ \ {to}]
                   EXCEPT ![restoredPiece] = @ \cup {from}],
            !.bbSide[movingColorIdx] = (@ \ {to}) \cup {from},
            !.pieceList[from] = restoredPiece]

\* a captured piece returns to the destination square, which is empty otherwise
restoreCaptured(b, oppositeColorIdx, capturedPiece, to) ==
  IF capturedPiece # NONE
  THEN [b EXCEPT !.bbPieces[oppositeColorIdx][capturedPiece] = @ \cup {to},
                 !.bbSide[oppositeColorIdx] = @ \cup {to},
                 !.pieceList[to] = capturedPiece]
  ELSE [b EXCEPT !.pieceList[to] = NONE]

\* the pawn captured en passant returns
restoreEnPassantPawn(b, oppositeColorIdx, enPassantCapture) ==
  IF enPassantCapture # null
  THEN [b EXCEPT !.bbPieces[oppositeColorIdx][PAWN] = @ \cup {enPassantCapture},
                 !.bbSide[oppositeColorIdx] = @ \cup {enPassantCapture},
                 !.pieceList[enPassantCapture] = PAWN]
  ELSE b

\* the rook of a castling move returns to its corner
restoreCastlingRook(b, movingColorIdx, rook) ==
  IF rook # <<>>
  THEN [b EXCEPT !.bbPieces[movingColorIdx][ROOK] = (@ \ {rook[2]}) \cup {rook[1]},
                 !.bbSide[movingColorIdx] = (@ \ {rook[2]}) \cup {rook[1]},
                 !.pieceList[rook[1]] = ROOK,
                 !.pieceList[rook[2]] = NONE]
  ELSE b

\* the saved state becomes the game state and the record is popped
restoreGameState(b) ==
  [b EXCEPT !.gameState = b.history.states[Len(b.history.states)],
            !.history = HistoryPop(@)]

\* Board.undoMove(): [ret, board]
undoMove(b) ==
  IF Len(b.history.states) = 0 THEN rejected(b)
  ELSE IF Len(b.history.moves) = 0 THEN rejected(b)
  ELSE
  LET moveInfo == b.history.moves[Len(b.history.moves)]
      movingColorIdx == colorToIndex(IF b.gameState.active_color = "white" THEN "black" ELSE "white")
      oppositeColorIdx == colorToIndex(b.gameState.active_color)
  IN [ret |-> TRUE,
      board |->
        restoreGameState(
          restoreCastlingRook(
            restoreEnPassantPawn(
              restoreCaptured(
                restoreMovedPiece(b, movingColorIdx,
                  undoDestinationPiece(moveInfo.promotionPiece, moveInfo.movingPiece),
                  undoRestoredPiece(moveInfo.promotionPiece, moveInfo.movingPiece),
                  moveInfo.from, moveInfo.to),
                oppositeColorIdx, moveInfo.capturedPiece, moveInfo.to),
              oppositeColorIdx, moveInfo.enPassantCapture),
            movingColorIdx, moveInfo.castlingRook))]

\* ------------------------------------------------------------ chessLogic.js
Board_getOccupancy(b) == b.bbSide[WHITE_IDX] \cup b.bbSide[BLACK_IDX]

deepCopyBoard(b) == b

other(color) == IF color = "white" THEN "black" ELSE "white"

canMoveTo(b, targetRow, targetCol, color) ==
  IF targetRow < 0 \/ targetRow >= 8 \/ targetCol < 0 \/ targetCol >= 8 THEN FALSE
  ELSE LET targetColor == getPieceColor(b.bbSide, rowColToIndex(targetRow, targetCol))
       IN targetColor = "none" \/ targetColor = other(color)

getValidPawnMoves(row, col, b, color) ==
  LET oppositeColor == other(color)
      direction == IF color = "white" THEN -1 ELSE 1
      startingRank == IF color = "white" THEN 6 ELSE 1
      enPassantRank == IF color = "white" THEN 3 ELSE 4
      oneSquareForward == row + direction
      twoSquaresForward == row + 2 * direction
      forward ==
        IF oneSquareForward >= 0 /\ oneSquareForward < 8
           /\ getPieceColor(b.bbSide, rowColToIndex(oneSquareForward, col)) = "none"
        THEN <<<<oneSquareForward, col>>>> \o
             (IF row = startingRank
                 /\ getPieceColor(b.bbSide, rowColToIndex(twoSquaresForward, col)) = "none"
              THEN <<<<twoSquaresForward, col>>>> ELSE <<>>)
        ELSE <<>>
      diag(dcol) ==
        LET targetRow == row + direction
            targetCol == col + dcol
        IN IF targetRow >= 0 /\ targetRow < 8 /\ targetCol >= 0 /\ targetCol < 8
              /\ getPieceColor(b.bbSide, rowColToIndex(targetRow, targetCol)) = oppositeColor
           THEN <<<<targetRow, targetCol>>>> ELSE <<>>
      epSq == b.gameState.en_passant_sq
      epCol == indexToRowCol(epSq)[2]
      enPassant ==
        IF row = enPassantRank /\ epSq # -1
           /\ (epCol - col = 1 \/ col - epCol = 1)
           /\ getPieceColor(b.bbSide, rowColToIndex(row, epCol)) = oppositeColor
           /\ b.pieceList[rowColToIndex(row, epCol)] = PAWN
        THEN <<<<row + direction, epCol>>>> ELSE <<>>
  IN forward \o diag(-1) \o diag(1) \o enPassant

\* one ray of a sliding piece, from the square after (r, c)
RECURSIVE slide(_, _, _, _, _, _)
slide(b, r, c, dr, dc, oppositeColor) ==
  LET nr == r + dr
      nc == c + dc
  IN IF nr < 0 \/ nr >= 8 \/ nc < 0 \/ nc >= 8 THEN <<>>
     ELSE LET targetColor == getPieceColor(b.bbSide, rowColToIndex(nr, nc))
          IN IF targetColor = "none"
             THEN <<<<nr, nc>>>> \o slide(b, nr, nc, dr, dc, oppositeColor)
             ELSE IF targetColor = oppositeColor THEN <<<<nr, nc>>>> ELSE <<>>

getValidRookMoves(row, col, b, color) ==
  slide(b, row, col, 1, 0, other(color)) \o slide(b, row, col, -1, 0, other(color))
    \o slide(b, row, col, 0, 1, other(color)) \o slide(b, row, col, 0, -1, other(color))

getValidBishopMoves(row, col, b, color) ==
  slide(b, row, col, 1, 1, other(color)) \o slide(b, row, col, 1, -1, other(color))
    \o slide(b, row, col, -1, 1, other(color)) \o slide(b, row, col, -1, -1, other(color))

getValidQueenMoves(row, col, b, color) ==
  getValidRookMoves(row, col, b, color) \o getValidBishopMoves(row, col, b, color)

knightMoves == <<<<2, 1>>, <<2, -1>>, <<-2, 1>>, <<-2, -1>>,
                 <<1, 2>>, <<1, -2>>, <<-1, 2>>, <<-1, -2>>>>

kingMoves == <<<<1, 0>>, <<-1, 0>>, <<0, 1>>, <<0, -1>>,
               <<1, 1>>, <<1, -1>>, <<-1, 1>>, <<-1, -1>>>>

\* the steps of a step table that canMoveTo accepts, in table order
RECURSIVE stepMoves(_, _, _, _, _, _)
stepMoves(table, i, row, col, b, color) ==
  IF i > Len(table) THEN <<>>
  ELSE (IF canMoveTo(b, row + table[i][1], col + table[i][2], color)
        THEN <<<<row + table[i][1], col + table[i][2]>>>> ELSE <<>>)
       \o stepMoves(table, i + 1, row, col, b, color)

getValidKnightMoves(row, col, b, color) == stepMoves(knightMoves, 1, row, col, b, color)

SeqToSet(s) == {s[i] : i \in 1..Len(s)}

\* getValidMoves(row, col, board, false): the switch of lines 292-316 when castling is
\* not looked at (getValidKingMoves then returns the eight steps only)
getValidMovesNoCastling(row, col, b) ==
  LET index == rowColToIndex(row, col)
      piece == b.pieceList[index]
      color == getPieceColor(b.bbSide, index)
  IN IF piece = NONE THEN <<>>
     ELSE IF color = "none" THEN <<>>
     ELSE CASE piece = PAWN -> getValidPawnMoves(row, col, b, color)
            [] piece = ROOK -> getValidRookMoves(row, col, b, color)
            [] piece = KNIGHT -> getValidKnightMoves(row, col, b, color)
            [] piece = BISHOP -> getValidBishopMoves(row, col, b, color)
            [] piece = QUEEN -> getValidQueenMoves(row, col, b, color)
            [] piece = KING -> stepMoves(kingMoves, 1, row, col, b, color)

isInCheck(b, color) ==
  LET colorIdx == colorToIndex(color)
      kingSquare == getLSB(b.bbPieces[colorIdx][KING])
      oppositeColorIdx == colorToIndex(other(color))
  IN IF kingSquare = -1 THEN FALSE
     ELSE \E pieceType \in Kinds : \E square \in b.bbPieces[oppositeColorIdx][pieceType] :
            indexToRowCol(kingSquare) \in
              SeqToSet(getValidMovesNoCastling(indexToRowCol(square)[1],
                                               indexToRowCol(square)[2], b))

\* lines 229-245: the king-side castling move, if it is generated
castleKingSide(row, col, b, color) ==
  LET backRank == IF color = "white" THEN 7 ELSE 0
      kingSideMask == IF color = "white" THEN WHITE_KINGSIDE ELSE BLACK_KINGSIDE
      f == rowColToIndex(backRank, 5)
      g == rowColToIndex(backRank, 6)
  IN IF HasBit(b.gameState.castling, kingSideMask)
        /\ f \notin Board_getOccupancy(b) /\ g \notin Board_getOccupancy(b)
        /\ ~isInCheck(makeMove(deepCopyBoard(b), rowColToIndex(row, col), f, null).board, color)
     THEN <<<<backRank, 6>>>> ELSE <<>>

\* lines 247-267: the queen-side castling move, if it is generated
castleQueenSide(row, col, b, color) ==
  LET backRank == IF color = "white" THEN 7 ELSE 0
      queenSideMask == IF color = "white" THEN WHITE_QUEENSIDE ELSE BLACK_QUEENSIDE
      bsq == rowColToIndex(backRank, 1)
      c == rowColToIndex(backRank, 2)
      d == rowColToIndex(backRank, 3)
  IN IF HasBit(b.gameState.castling, queenSideMask)
        /\ bsq \notin Board_getOccupancy(b) /\ c \notin Board_getOccupancy(b)
        /\ d \notin Board_getOccupancy(b)
        /\ ~isInCheck(makeMove(deepCopyBoard(b), rowColToIndex(row, col), d, null).board, color)
     THEN <<<<backRank, 2>>>> ELSE <<>>

\* a castling precondition that does not look at the check
castlingAllowedInCheck(row, col, b, color) ==
  row = (IF color = "white" THEN 7 ELSE 0) /\ col = 4

\* line 227: the precondition of both castling moves
castlingAllowed(row, col, b, color) ==
  LET backRank == IF color = "white" THEN 7 ELSE 0
  IN row = backRank /\ col = 4 /\ ~isInCheck(b, color)

getValidKingMoves(row, col, b, color, checkCastling) ==
  stepMoves(kingMoves, 1, row, col, b, color)
    \o (IF checkCastling /\ castlingAllowed(row, col, b, color)
        THEN castleKingSide(row, col, b, color) \o castleQueenSide(row, col, b, color)
        ELSE <<>>)

getValidMoves(row, col, b, checkCastling) ==
  LET index == rowColToIndex(row, col)
  IN IF b.pieceList[index] = KING /\ getPieceColor(b.bbSide, index) # "none"
     THEN getValidKingMoves(row, col, b, getPieceColor(b.bbSide, index), checkCastling)
     ELSE getValidMovesNoCastling(row, col, b)

\* simulateMove(fromRow, fromCol, toRow, toCol, board): [board, needsPromotion]
simulateMove(fromRow, fromCol, toRow, toCol, b) ==
  LET newBoard == deepCopyBoard(b)
      fromIndex == rowColToIndex(fromRow, fromCol)
      toIndex == rowColToIndex(toRow, toCol)
      piece == newBoard.pieceList[fromIndex]
      color == getPieceColor(newBoard.bbSide, fromIndex)
  IN IF piece = PAWN /\ ((color = "white" /\ toRow = 0) \/ (color = "black" /\ toRow = 7))
     THEN [board |-> newBoard, needsPromotion |-> TRUE]
     ELSE [board |-> makeMove(newBoard, fromIndex, toIndex, null).board, needsPromotion |-> FALSE]

\* ------------------------------------------------------------ legal-move lists
\* the filter both lists apply to one pseudo-legal move (simulateMove, then isInCheck)
keepsKingSafe(b, color, fromRow, fromCol, toRow, toCol) ==
  ~isInCheck(simulateMove(fromRow, fromCol, toRow, toCol, b).board, color)

\* BotPlayer.getLegalMovesForColor: the moves of the piece on fromSquare
legalMovesOfPiece(b, color, pieceType, fromSquare) ==
  LET fromRow == indexToRowCol(fromSquare)[1]
      fromCol == indexToRowCol(fromSquare)[2]
      pieceMoves == getValidMoves(fromRow, fromCol, b, TRUE)
      entry(to) ==
        LET toSquare == rowColToIndex(to[1], to[2])
        IN [from |-> <<fromRow, fromCol>>, to |-> to,
            fromSquare |-> fromSquare, toSquare |-> toSquare, piece |-> pieceType,
            capturedPiece |-> IF b.pieceList[toSquare] # NONE THEN b.pieceList[toSquare] ELSE null,
            isPromotion |-> pieceType = PAWN
               /\ ((color = "white" /\ to[1] = 0) \/ (color = "black" /\ to[1] = 7))]
      keep(to) == keepsKingSafe(b, color, fromRow, fromCol, to[1], to[2])
      kept == SelectSeq(pieceMoves, keep)
  IN [i \in 1..Len(kept) |-> entry(kept[i])]

RECURSIVE concatAll(_)
concatAll(ss) == IF ss = <<>> THEN <<>> ELSE Head(ss) \o concatAll(Tail(ss))

getLegalMovesForColor(b, color) ==
  LET colorIdx == colorToIndex(color)
      ofKind(pieceType) ==
        LET from == drain(b.bbPieces[colorIdx][pieceType])
        IN concatAll([i \in 1..Len(from) |-> legalMovesOfPiece(b, color, pieceType, from[i])])
  IN concatAll([k \in 1..6 |-> ofKind(k - 1)])

\* Player.getAllLegalMoves: the same walk, with its own move record
getAllLegalMoves(b, color) ==
  LET ms == getLegalMovesForColor(b, color)
  IN [i \in 1..Len(ms) |->
        [from |-> ms[i].from, to |-> ms[i].to, fromSquare |-> ms[i].fromSquare,
         toSquare |-> ms[i].to[1] * 8 + ms[i].to[2]]]

hasValidMoves(color, b) == Len(getLegalMovesForColor(b, color)) > 0

\* ------------------------------------------------------------ Player: draw test
\* a repetition test that reports the second occurrence already
hasTwofoldRepetition(b) ==
  \E i \in 1..Len(b.history.states) :
    /\ (Len(b.history.states) + 1 - i) % 2 = 0
    /\ b.history.states[i].zobrist_key = b.gameState.zobrist_key

\* Player.hasThreefoldRepetition
hasThreefoldRepetition(b) ==
  LET currentZobrist == b.gameState.zobrist_key
      historyLength == Len(b.history.states)
      clock == b.gameState.half_move_clock
      maxLookback == IF historyLength < clock THEN historyLength ELSE clock
      low == IF historyLength - maxLookback > 0 THEN historyLength - maxLookback ELSE 0
      \* the indices i = historyLength - 2, historyLength - 4, ... >= low (0-based)
      visited == {i \in low..(historyLength - 2) : (historyLength - i) % 2 = 0}
      matches == {i \in visited : b.history.states[i + 1].zobrist_key = currentZobrist}
  IN 1 + Cardinality(matches) >= 3

popCount(bb) == Cardinality(bb)

hasInsufficientMaterial(b) ==
  LET totalPieces == popCount(b.bbPieces[WHITE_IDX][KING]) + popCount(b.bbPieces[WHITE_IDX][QUEEN])
                     + popCount(b.bbPieces[WHITE_IDX][ROOK]) + popCount(b.bbPieces[WHITE_IDX][BISHOP])
                     + popCount(b.bbPieces[WHITE_IDX][KNIGHT]) + popCount(b.bbPieces[WHITE_IDX][PAWN])
                     + popCount(b.bbPieces[BLACK_IDX][KING]) + popCount(b.bbPieces[BLACK_IDX][QUEEN])
                     + popCount(b.bbPieces[BLACK_IDX][ROOK]) + popCount(b.bbPieces[BLACK_IDX][BISHOP])
                     + popCount(b.bbPieces[BLACK_IDX][KNIGHT]) + popCount(b.bbPieces[BLACK_IDX][PAWN])
      wB == popCount(b.bbPieces[WHITE_IDX][BISHOP])
      bB == popCount(b.bbPieces[BLACK_IDX][BISHOP])
      wN == popCount(b.bbPieces[WHITE_IDX][KNIGHT])
      bN == popCount(b.bbPieces[BLACK_IDX][KNIGHT])
      squareColor(s) == ((s \div 8) + (s % 8)) % 2
  IN \/ totalPieces = 2
     \/ totalPieces = 3 /\ (wB = 1 \/ wN = 1 \/ bB = 1 \/ bN = 1)
     \/ totalPieces = 4 /\ wB = 1 /\ bB = 1
        /\ squareColor(getLSB(b.bbPieces[WHITE_IDX][BISHOP]))
           = squareColor(getLSB(b.bbPieces[BLACK_IDX][BISHOP]))

\* Player.isDraw of the player of the given colour
isDraw(b, color) ==
  \/ ~isInCheck(b, color) /\ ~hasValidMoves(color, b)
  \/ b.gameState.half_move_clock >= 100
  \/ hasInsufficientMaterial(b)
  \/ hasThreefoldRepetition(b)

\* boardToFen, the en-passant field: <<file, rank>> with file 0 = 'a', or <<>> for '-'
fenEnPassant(b) ==
  IF b.gameState.en_passant_sq # -1
  THEN LET rc == indexToRowCol(b.gameState.en_passant_sq)
       IN <<rc[2], 8 - rc[1]>>
  ELSE <<>>

\* boardToFen: the six fields of the FEN string. The piece placement is kept as
\* the piece and the colour index of every square, row by row (the run lengths of
\* the empty squares are determined by it), the castling field as the set of its
\* letters.
boardToFen(b) ==
  [placement |-> [row \in 0..7 |-> [col \in 0..7 |->
      IF b.pieceList[rowColToIndex(row, col)] = NONE
      THEN <<>>
      ELSE <<b.pieceList[rowColToIndex(row, col)],
             IF rowColToIndex(row, col) \in b.bbSide[0] THEN 0 ELSE 1>>]],
   activeColor |-> IF b.gameState.active_color = "white" THEN "w" ELSE "b",
   castling |-> {l \in {"K", "Q", "k", "q"} :
                   \/ l = "K" /\ HasBit(b.gameState.castling, WHITE_KINGSIDE)
                   \/ l = "Q" /\ HasBit(b.gameState.castling, WHITE_QUEENSIDE)
                   \/ l = "k" /\ HasBit(b.gameState.castling, BLACK_KINGSIDE)
                   \/ l = "q" /\ HasBit(b.gameState.castling, BLACK_QUEENSIDE)},
   enPassant |-> fenEnPassant(b),
   halfMoveClock |-> b.gameState.half_move_clock,
   fullMoveCount |-> b.gameState.full_move_count]

\* ------------------------------------------------------------ the games played
\* Each line is a sequence of <<fromSquare, toSquare, promotionPiece>> played from the
\* initial position; a line is followed only while its next move is in the legal-move list.
\* the en-passant example: White may capture e5xd6 en passant:
\*   e2e4 a7a6 e4e5 d7d5
LineEnPassant ==
  <<<<12, 28, null>>, <<48, 40, null>>, <<28, 36, null>>, <<51, 35, null>>>>

\* the same game with a quiet move instead, and the black queen to d6:
\*   e2e4 a7a6 e4e5 d7d5 a2a3 d8d6
LineEnPassantLate ==
  <<<<12, 28, null>>, <<48, 40, null>>, <<28, 36, null>>, <<51, 35, null>>,
    <<8, 16, null>>, <<59, 43, null>>>>

\* the same game with a quiet move instead, and the black queen to d7:
\*   e2e4 a7a6 e4e5 d7d5 a2a3 d8d7
LineEnPassantStale ==
  <<<<12, 28, null>>, <<48, 40, null>>, <<28, 36, null>>, <<51, 35, null>>,
    <<8, 16, null>>, <<59, 51, null>>>>

\* the en-passant position, then both king's knights out and back, twice:
\*   e2e4 a7a6 e4e5 d7d5 g1f3 g8f6 f3g1 f6g8 g1f3 g8f6 f3g1 f6g8
LineEnPassantRepeat ==
  <<<<12, 28, null>>, <<48, 40, null>>, <<28, 36, null>>, <<51, 35, null>>,
    <<6, 21, null>>, <<62, 45, null>>, <<21, 6, null>>, <<45, 62, null>>,
    <<6, 21, null>>, <<62, 45, null>>, <<21, 6, null>>, <<45, 62, null>>>>

\* a knight captures after two quiet plies: g1f3 d7d5 f3e5 d8d6 e5f7
LineKnightCapture ==
  <<<<6, 21, null>>, <<51, 35, null>>, <<21, 36, null>>, <<59, 43, null>>,
    <<36, 53, null>>>>

\* Black is checkmated: f2f3 e7e5 g2g4 d8h4
LineFoolsMate ==
  <<<<13, 21, null>>, <<52, 36, null>>, <<14, 30, null>>, <<59, 31, null>>>>

\* Black is in check and has the one reply g7g6: e2e4 f7f6 d1h5
LineSingleReply ==
  <<<<12, 28, null>>, <<53, 45, null>>, <<3, 39, null>>>>

\* Black may capture d4xe3 en passant:
\*   a2a3 d7d5 a3a4 d5d4 e2e4
LineEnPassantBlack ==
  <<<<8, 16, null>>, <<51, 35, null>>, <<16, 24, null>>, <<35, 27, null>>,
    <<12, 28, null>>>>

\* the knight shuffle played twice:
\*   g1f3 b8c6 f3g1 c6b8 g1f3 b8c6 f3g1 c6b8
LineShuffle ==
  <<<<6, 21, null>>, <<57, 42, null>>, <<21, 6, null>>, <<42, 57, null>>,
    <<6, 21, null>>, <<57, 42, null>>, <<21, 6, null>>, <<42, 57, null>>>>

\* a pawn on c7 that can capture the checking queen on d8:
\*   d2d4 e7e5 d4e5 d7d6 e5d6 d8f6 d6c7 a7a6 e1d2 f6d8
LinePromotionCheck ==
  <<<<11, 27, null>>, <<52, 36, null>>, <<27, 36, null>>, <<51, 43, null>>,
    <<36, 43, null>>, <<59, 45, null>>, <<43, 50, null>>, <<48, 40, null>>,
    <<4, 11, null>>, <<45, 59, null>>>>

\* a pawn on c7 pinned on the c-file against the king on c3:
\*   d2d4 e7e5 d4e5 d7d6 e5d6 c8e6 d6c7 d8c8 e1d2 a7a6 d2c3 h7h6 c7b8=N c8c3
LinePinnedPromotion ==
  <<<<11, 27, null>>, <<52, 36, null>>, <<27, 36, null>>, <<51, 43, null>>,
    <<36, 43, null>>, <<58, 44, null>>, <<43, 50, null>>, <<59, 58, null>>,
    <<4, 11, null>>, <<48, 40, null>>, <<11, 18, null>>, <<55, 47, null>>,
    <<50, 57, KNIGHT>>, <<58, 18, null>>>>

\* both white castling paths empty, after Black has castled:
\*   e2e4 d7d5 e4d5 e7e6 g1f3 e6d5 f1c4 g8f6 b1c3 f8d6 d2d4 e8g8 c1g5 a7a6 d1d2 b7b6
LineCastle ==
  <<<<12, 28, null>>, <<51, 35, null>>, <<28, 35, null>>, <<52, 44, null>>,
    <<6, 21, null>>, <<44, 35, null>>, <<5, 26, null>>, <<62, 45, null>>,
    <<1, 18, null>>, <<61, 43, null>>, <<11, 27, null>>, <<60, 62, null>>,
    <<2, 38, null>>, <<48, 40, null>>, <<3, 11, null>>, <<49, 41, null>>>>

\* the same game ending with a rook check on the open e-file:
\*   e2e4 d7d5 e4d5 e7e6 g1f3 e6d5 f1c4 g8f6 b1c3 f8d6 d2d4 e8g8 c1g5 a7a6 d1d2 f8e8
LineCastleCheck ==
  <<<<12, 28, null>>, <<51, 35, null>>, <<28, 35, null>>, <<52, 44, null>>,
    <<6, 21, null>>, <<44, 35, null>>, <<5, 26, null>>, <<62, 45, null>>,
    <<1, 18, null>>, <<61, 43, null>>, <<11, 27, null>>, <<60, 62, null>>,
    <<2, 38, null>>, <<48, 40, null>>, <<3, 11, null>>, <<61, 60, null>>>>

\* a white pawn on g7 that can promote on g8 or capture the rook on h8:
\*   h2h4 g7g5 h4g5 h7h6 g5h6 f8g7 h6g7 g8f6
LineRookCorner ==
  <<<<15, 31, null>>, <<54, 38, null>>, <<31, 38, null>>, <<55, 47, null>>,
    <<38, 47, null>>, <<61, 54, null>>, <<47, 54, null>>, <<62, 45, null>>>>

\* a black pawn on g2 that can promote on g1 or capture the rook on h1:
\*   a2a3 h7h5 g2g4 h5g4 h2h3 g4h3 f1g2 h3g2 g1f3
LineRookCornerBlack ==
  <<<<8, 16, null>>, <<55, 39, null>>, <<14, 30, null>>, <<39, 30, null>>,
    <<15, 23, null>>, <<30, 23, null>>, <<5, 14, null>>, <<23, 14, null>>,
    <<6, 21, null>>>>

\* the a-pawns advanced: the white a-rook can leave its corner:
\*   a2a4 a7a5
LineRookMove ==
  <<<<8, 24, null>>, <<48, 32, null>>>>

\* the same with Black to move:
\*   a2a4 a7a5 h2h4
LineRookMoveBlack ==
  <<<<8, 24, null>>, <<48, 32, null>>, <<15, 31, null>>>>

Lines ==
  {LineEnPassant,
   LineEnPassantLate,
   LineEnPassantStale,
   LineEnPassantRepeat,
   LineKnightCapture,
   LineFoolsMate,
   LineSingleReply,
   LineEnPassantBlack,
   LineShuffle,
   LinePromotionCheck,
   LinePinnedPromotion,
   LineCastle,
   LineCastleCheck,
   LineRookCorner,
   LineRookCornerBlack,
   LineRookMove,
   LineRookMoveBlack}

\* ------------------------------------------------------------ Player.PIECE_VALUES
PIECE_VALUES(piece) ==
  CASE piece = PAWN -> 100
    [] piece = KNIGHT -> 320
    [] piece = BISHOP -> 330
    [] piece = ROOK -> 500
    [] piece = QUEEN -> 900
    [] OTHER -> 0

\* ------------------------------------------------------------ BotPlayer: settings
ROOKIE == 1
CASUAL == 2
STRATEGIC == 3
MASTER == 4
DIFFICULTY == {ROOKIE, CASUAL, STRATEGIC, MASTER}

\* DIFFICULTY_CONFIG: the settings the model reads; blunderChance and mistakeChance
\* are in hundredths
DIFFICULTY_CONFIG(difficulty) ==
  CASE difficulty = ROOKIE ->
         [name |-> "Rookie", useQuiescence |-> FALSE, quiescenceDepth |-> 0,
          minDepth |-> 2, maxDepth |-> 4,
          useCenterControl |-> TRUE, usePawnStructure |-> FALSE, useKingSafety |-> FALSE,
          useDevelopment |-> TRUE, usePawnPushBonus |-> TRUE,
          useOpeningBook |-> FALSE, useKillerMoves |-> FALSE, useHistoryHeuristic |-> FALSE,
          blunderChance |-> 10, mistakeChance |-> 15, moveSelectionPool |-> 6]
    [] difficulty = CASUAL ->
         [name |-> "Casual", useQuiescence |-> TRUE, quiescenceDepth |-> 3,
          minDepth |-> 4, maxDepth |-> 6,
          useCenterControl |-> TRUE, usePawnStructure |-> TRUE, useKingSafety |-> FALSE,
          useDevelopment |-> TRUE, usePawnPushBonus |-> TRUE,
          useOpeningBook |-> TRUE, useKillerMoves |-> FALSE, useHistoryHeuristic |-> FALSE,
          blunderChance |-> 3, mistakeChance |-> 8, moveSelectionPool |-> 4]
    [] difficulty = STRATEGIC ->
         [name |-> "Strategic", useQuiescence |-> TRUE, quiescenceDepth |-> 4,
          minDepth |-> 6, maxDepth |-> 8,
          useCenterControl |-> TRUE, usePawnStructure |-> TRUE, useKingSafety |-> TRUE,
          useDevelopment |-> TRUE, usePawnPushBonus |-> TRUE,
          useOpeningBook |-> TRUE, useKillerMoves |-> TRUE, useHistoryHeuristic |-> TRUE,
          blunderChance |-> 0, mistakeChance |-> 2, moveSelectionPool |-> 3]
    [] OTHER ->
         [name |-> "Master", useQuiescence |-> TRUE, quiescenceDepth |-> 6,
          minDepth |-> 8, maxDepth |-> 10,
          useCenterControl |-> TRUE, usePawnStructure |-> TRUE, useKingSafety |-> TRUE,
          useDevelopment |-> TRUE, usePawnPushBonus |-> TRUE,
          useOpeningBook |-> TRUE, useKillerMoves |-> TRUE, useHistoryHeuristic |-> TRUE,
          blunderChance |-> 0, mistakeChance |-> 0, moveSelectionPool |-> 1]

\* configure({blunderChance: 0})
configureNoBlunder(config) == [config EXCEPT !.blunderChance = 0]

\* configure({blunderChance: 0, mistakeChance: 0})
configureNoImperfection(config) == [config EXCEPT !.blunderChance = 0, !.mistakeChance = 0]

\* ------------------------------------------------------------ BotPlayer: evaluation
\* Scores are kept as integers: every score is the program's score times EvalScale,
\* which makes the king-safety weight max(0.2, 1 - endgameWeight) a whole number.
EvalScale == 120

RECURSIVE SumSeq(_)
SumSeq(s) == IF s = <<>> THEN 0 ELSE Head(s) + SumSeq(Tail(s))

\* getEvaluationContext; endgameWeight is in 120ths
getEvaluationContext(b) ==
  LET count(pieceType) == popCount(b.bbPieces[WHITE_IDX][pieceType]) + popCount(b.bbPieces[BLACK_IDX][pieceType])
      phase == count(KNIGHT) + count(BISHOP) + 2 * count(ROOK) + 4 * count(QUEEN)
  IN [phase |-> phase,
      endgameWeight |-> IF EvalScale - 5 * phase > 0 THEN EvalScale - 5 * phase ELSE 0,
      moveCount |-> Len(b.history.moves)]

MaterialHeuristic(b, color) ==
  LET colorIdx == colorToIndex(color)
      oppositeColorIdx == colorToIndex(other(color))
      term(piece) == (popCount(b.bbPieces[colorIdx][piece]) - popCount(b.bbPieces[oppositeColorIdx][piece])) * PIECE_VALUES(piece)
  IN term(KING) + term(QUEEN) + term(ROOK) + term(BISHOP) + term(KNIGHT) + term(PAWN)

centerSquares == {rowColToIndex(3, 3), rowColToIndex(3, 4), rowColToIndex(4, 3), rowColToIndex(4, 4)}

extendedCenter == {rowColToIndex(row, col) : row \in 2..5, col \in 2..5} \ centerSquares

centerBonus(piece) ==
  IF piece = PAWN THEN 30 ELSE IF piece = KNIGHT THEN 20 ELSE IF piece = BISHOP THEN 15 ELSE 10

CenterControlHeuristic(b, color) ==
  LET colorIdx == colorToIndex(color)
      oppositeColorIdx == colorToIndex(other(color))
      center(sq) == (IF sq \in b.bbSide[colorIdx] THEN centerBonus(b.pieceList[sq]) ELSE 0)
                    - (IF sq \in b.bbSide[oppositeColorIdx] THEN centerBonus(b.pieceList[sq]) ELSE 0)
      sqs == drain(centerSquares)
  IN SumSeq([i \in 1..Len(sqs) |-> center(sqs[i])])
     + 5 * Cardinality(extendedCenter \cap b.bbSide[colorIdx])
     - 5 * Cardinality(extendedCenter \cap b.bbSide[oppositeColorIdx])

evaluateDevelopment(b, color, colorIdx, context) ==
  LET backRank == IF color = "white" THEN 7 ELSE 0
      knightStarts == IF color = "white" THEN {rowColToIndex(7, 1), rowColToIndex(7, 6)}
                      ELSE {rowColToIndex(0, 1), rowColToIndex(0, 6)}
      bishopStarts == IF color = "white" THEN {rowColToIndex(7, 2), rowColToIndex(7, 5)}
                      ELSE {rowColToIndex(0, 2), rowColToIndex(0, 5)}
      kingSquare == getLSB(b.bbPieces[colorIdx][KING])
      kingRow == indexToRowCol(kingSquare)[1]
      kingCol == indexToRowCol(kingSquare)[2]
      queenBB == b.bbPieces[colorIdx][QUEEN]
      queenRow == indexToRowCol(getLSB(queenBB))[1]
      undevelopedMinors ==
        Cardinality({sq \in knightStarts \cup bishopStarts :
                       sq \in b.bbPieces[colorIdx][KNIGHT] \/ sq \in b.bbPieces[colorIdx][BISHOP]})
  IN - 25 * Cardinality(knightStarts \cap b.bbPieces[colorIdx][KNIGHT])
     - 25 * Cardinality(bishopStarts \cap b.bbPieces[colorIdx][BISHOP])
     + (IF kingSquare # -1 /\ kingRow = backRank
        THEN (IF kingCol = 6 \/ kingCol = 2 THEN 40 ELSE IF kingCol = 4 THEN -15 ELSE 0)
        ELSE 0)
     + (IF queenBB # {} /\ queenRow # backRank /\ context.moveCount < 8 /\ undevelopedMinors >= 2
        THEN -30 ELSE 0)

DevelopmentHeuristic(b, color, context) ==
  IF context.moveCount > 20 THEN 0
  ELSE evaluateDevelopment(b, color, colorToIndex(color), context)
       - evaluateDevelopment(b, other(color), colorToIndex(other(color)), context)

passedPawnBonus == <<0, 10, 15, 25, 40, 60, 90, 0>>

isPassedPawn(b, pawnRow, pawnCol, color, oppositeColorIdx) ==
  LET cols == (IF pawnCol - 1 > 0 THEN pawnCol - 1 ELSE 0)..(IF pawnCol + 1 < 7 THEN pawnCol + 1 ELSE 7)
      rows == IF color = "white" THEN 0..(pawnRow - 1) ELSE (pawnRow + 1)..7
  IN \A col \in cols : \A row \in rows : rowColToIndex(row, col) \notin b.bbPieces[oppositeColorIdx][PAWN]

\* pawnFiles[col] of analyzePawnStructure: the number of pawns of the side on the file
pawnFiles(b, colorIdx, col) == Cardinality({sq \in b.bbPieces[colorIdx][PAWN] : sq % 8 = col})

\* lines 590-593: what the pawn on the square adds to the score for doubled pawns
doubledPawnTerm(b, colorIdx, square) ==
  IF pawnFiles(b, colorIdx, indexToRowCol(square)[2]) > 1 THEN -12 ELSE 0

analyzePawnStructure(b, color, colorIdx, oppositeColorIdx) ==
  LET pawns == drain(b.bbPieces[colorIdx][PAWN])
      ofPawn(square) ==
        LET row == indexToRowCol(square)[1]
            col == indexToRowCol(square)[2]
            hasLeftNeighbor == col > 0 /\ pawnFiles(b, colorIdx, col - 1) > 0
            hasRightNeighbor == col < 7 /\ pawnFiles(b, colorIdx, col + 1) > 0
            advancement == IF color = "white" THEN 7 - row ELSE row
        IN doubledPawnTerm(b, colorIdx, square)
           + (IF ~hasLeftNeighbor /\ ~hasRightNeighbor THEN -15 ELSE 8)
           + (IF isPassedPawn(b, row, col, color, oppositeColorIdx) THEN passedPawnBonus[advancement + 1] ELSE 0)
  IN SumSeq([i \in 1..Len(pawns) |-> ofPawn(pawns[i])])

PawnStructureHeuristic(b, color) ==
  analyzePawnStructure(b, color, colorToIndex(color), colorToIndex(other(color)))
  - analyzePawnStructure(b, other(color), colorToIndex(other(color)), colorToIndex(color))

evaluateKingSafety(b, color, colorIdx) ==
  LET kingSquare == getLSB(b.bbPieces[colorIdx][KING])
      kingRow == indexToRowCol(kingSquare)[1]
      kingCol == indexToRowCol(kingSquare)[2]
      backRank == IF color = "white" THEN 7 ELSE 0
      pawnRank == IF color = "white" THEN 6 ELSE 1
      cols == (IF kingCol - 1 > 0 THEN kingCol - 1 ELSE 0)..(IF kingCol + 1 < 7 THEN kingCol + 1 ELSE 7)
      shield == IF kingRow = backRank /\ (kingCol <= 2 \/ kingCol >= 5)
                THEN 12 * Cardinality({col \in cols : rowColToIndex(pawnRank, col) \in b.bbPieces[colorIdx][PAWN]})
                ELSE 0
      open == 25 * Cardinality({col \in cols : \A row \in 0..7 : rowColToIndex(row, col) \notin b.bbPieces[colorIdx][PAWN]})
  IN IF kingSquare = -1 THEN 0 ELSE shield - open

\* the program's score times EvalScale
KingSafetyHeuristic(b, color, context) ==
  LET rest == EvalScale - context.endgameWeight
      safetyWeight == IF rest > 24 THEN rest ELSE 24
  IN (evaluateKingSafety(b, color, colorToIndex(color))
      - evaluateKingSafety(b, other(color), colorToIndex(other(color)))) * safetyWeight

\* evaluate(board, color), with the heuristics initializeHeuristics enables for the
\* settings; the program's score times EvalScale
evaluate(b, color, config) ==
  EvalScale * (MaterialHeuristic(b, color)
               + (IF config.useCenterControl THEN CenterControlHeuristic(b, color) ELSE 0)
               + (IF config.useDevelopment THEN DevelopmentHeuristic(b, color, getEvaluationContext(b)) ELSE 0)
               + (IF config.usePawnStructure THEN PawnStructureHeuristic(b, color) ELSE 0))
  + (IF config.useKingSafety THEN KingSafetyHeuristic(b, color, getEvaluationContext(b)) ELSE 0)

\* ------------------------------------------------------------ BotPlayer: move ordering
PRIORITY_PROMOTION == 15000
PRIORITY_WINNING_CAPTURE == 12000
PRIORITY_EQUAL_CAPTURE == 9000
PRIORITY_OPENING_BOOK == 8500
PRIORITY_PAWN_DOUBLE_PUSH == 8000
PRIORITY_LOSING_CAPTURE == 7000

\* MVVLVAOrdering.getScore
mvvlvaScore(move) ==
  IF Falsy(move.capturedPiece) THEN 0
  ELSE LET captureScore == PIECE_VALUES(move.capturedPiece) * 10 - PIECE_VALUES(move.piece)
       IN IF captureScore > 0 THEN PRIORITY_WINNING_CAPTURE + captureScore
          ELSE IF captureScore = 0 THEN PRIORITY_EQUAL_CAPTURE
          ELSE PRIORITY_LOSING_CAPTURE + captureScore

\* PawnPushHeuristic.evaluatePawnPush
evaluatePawnPush(move, b, color) ==
  LET fromRow == move.from[1]
      toRow == move.to[1]
      col == move.from[2]
      colorIdx == colorToIndex(color)
      oppositeColorIdx == colorToIndex(other(color))
      isDoublePush == toRow - fromRow = 2 \/ fromRow - toRow = 2
      backRank == IF color = "white" THEN 7 ELSE 0
      pawnInFront == (color = "white" /\ toRow = 5) \/ (color = "black" /\ toRow = 2)
      blocked == {sq \in b.bbPieces[colorIdx][BISHOP] :
                    /\ indexToRowCol(sq)[1] = backRank
                    /\ pawnInFront
                    /\ (indexToRowCol(sq)[2] - col = 1 \/ col - indexToRowCol(sq)[2] = 1)}
      opponentControlsCenter == centerSquares \cap b.bbPieces[oppositeColorIdx][PAWN] # {}
  IN IF move.piece # PAWN \/ ~isDoublePush THEN 0
     ELSE 15
          + (IF col = 3 \/ col = 4 THEN 20 ELSE 0)
          + (IF col = 2 \/ col = 5 THEN 10 ELSE 0)
          - 10 * Cardinality(blocked)
          + (IF b.gameState.en_passant_sq # -1 THEN 5 ELSE 0)
          + (IF opponentControlsCenter /\ col >= 2 /\ col <= 5 THEN 15 ELSE 0)

\* the score orderMoves gives a move; learned is what the opening book, the killer
\* moves and the history heuristic add to it
orderScore(move, b, color, config, learned) ==
  learned
  + mvvlvaScore(move)
  + (IF move.isPromotion THEN PRIORITY_PROMOTION ELSE 0)
  + (IF config.usePawnPushBonus /\ move.piece = PAWN /\ evaluatePawnPush(move, b, color) > 0
     THEN PRIORITY_PAWN_DOUBLE_PUSH + evaluatePawnPush(move, b, color) ELSE 0)

\* Array.prototype.sort with (a, b) => b.score - a.score: stable, greatest score
\* first; the result is the sequence of the positions in scores
sortDescending(scores) ==
  LET n == Len(scores)
      rank(i) == 1 + Cardinality({j \in 1..n : scores[j] > scores[i] \/ (scores[j] = scores[i] /\ j < i)})
  IN [r \in 1..n |-> CHOOSE i \in 1..n : rank(i) = r]

\* orderMoves(moves, 0); learned[i] is what the book, the killers and the history
\* heuristic add to the score of moves[i]
orderMoves(moves, b, color, config, learned) ==
  LET order == sortDescending([i \in 1..Len(moves) |-> orderScore(moves[i], b, color, config, learned[i])])
  IN [r \in 1..Len(moves) |-> moves[order[r]]]

\* ------------------------------------------------------------ BotPlayer: search
\* Infinity, greater than every score
Infinity == 1000000000

\* the score of the position after the move, as the bot sees it
evaluateAfter(move, b, color, config) ==
  evaluate(simulateMove(move.from[1], move.from[2], move.to[1], move.to[2], b).board, color, config)

Max(a, b) == IF a > b THEN a ELSE b
Min(a, b) == IF a < b THEN a ELSE b

\* the captures among the legal moves, in the order quiescence searches them
quiescenceCaptures(b, color) ==
  LET moves == SelectSeq(getLegalMovesForColor(b, color), LAMBDA m : ~Falsy(m.capturedPiece))
      order == sortDescending([i \in 1..Len(moves) |->
                 10 * PIECE_VALUES(moves[i].capturedPiece) - PIECE_VALUES(moves[i].piece)])
  IN [r \in 1..Len(moves) |-> moves[order[r]]]

\* quiescence(board, alpha, beta, color, depth) of the bot of colour botColor;
\* quiescenceLoop is its loop from capture i on and quiescenceNext what the loop does
\* with the score of capture i
RECURSIVE quiescence(_, _, _, _, _, _, _)
RECURSIVE quiescenceLoop(_, _, _, _, _, _, _, _, _)
RECURSIVE quiescenceNext(_, _, _, _, _, _, _, _, _, _)
quiescenceNext(score, b, captures, i, alpha, beta, color, botColor, config, depth) ==
  IF color = botColor
  THEN IF Max(alpha, score) >= beta THEN Max(alpha, score)
       ELSE quiescenceLoop(b, captures, i + 1, Max(alpha, score), beta, color, botColor, config, depth)
  ELSE IF Min(beta, score) <= alpha THEN Min(beta, score)
       ELSE quiescenceLoop(b, captures, i + 1, alpha, Min(beta, score), color, botColor, config, depth)

quiescenceLoop(b, captures, i, alpha, beta, color, botColor, config, depth) ==
  IF i > Len(captures) THEN (IF color = botColor THEN alpha ELSE beta)
  ELSE quiescenceNext(
         quiescence(simulateMove(captures[i].from[1], captures[i].from[2], captures[i].to[1], captures[i].to[2], b).board,
                    alpha, beta, other(color), botColor, config, depth + 1),
         b, captures, i, alpha, beta, color, botColor, config, depth)

quiescence(b, alpha, beta, color, botColor, config, depth) ==
  IF depth >= config.quiescenceDepth THEN evaluate(b, color, config)
  ELSE IF color = botColor /\ evaluate(b, color, config) >= beta THEN beta
  ELSE IF color # botColor /\ evaluate(b, color, config) <= alpha THEN alpha
  ELSE IF Len(quiescenceCaptures(b, color)) = 0 THEN evaluate(b, color, config)
  ELSE IF color = botColor
       THEN quiescenceLoop(b, quiescenceCaptures(b, color), 1, Max(alpha, evaluate(b, color, config)), beta,
                           color, botColor, config, depth)
       ELSE quiescenceLoop(b, quiescenceCaptures(b, color), 1, alpha, Min(beta, evaluate(b, color, config)),
                           color, botColor, config, depth)

\* lines 1189-1194 of minimax: the score of a node with legal moves at depth 0,
\* the side of the given colour to move
depthZeroScore(b, alpha, beta, color, botColor, config) ==
  IF config.useQuiescence
  THEN quiescence(b, alpha, beta, color, botColor, config, 0)
  ELSE evaluate(b, color, config)

\* lines 1161-1167 of minimax for the child of the root reached by the move (ply 1,
\* the opponent to move): <<score>> if the opponent has no legal move (checkmate:
\* 20000 - ply, stalemate: 0; returned before the time limit is looked at), <<>> if
\* the search goes on below the child
terminalScore(move, b, color) ==
  LET after == simulateMove(move.from[1], move.from[2], move.to[1], move.to[2], b).board
      oppositeColor == IF color = "white" THEN "black" ELSE "white"
  IN IF Len(getLegalMovesForColor(after, oppositeColor)) = 0
     THEN IF isInCheck(after, oppositeColor) THEN <<19999 * EvalScale>> ELSE <<0>>
     ELSE <<>>

\* lines 1191-1243 of minimax at the root (ply 0, the bot to move, alpha = -Infinity,
\* beta = Infinity) from child i on: terminal[i] is terminalScore of orderedMoves[i],
\* childScore[i] the score the search below orderedMoves[i] returns otherwise, and
\* timeoutChild the first child searched after the time limit has passed (0: none)
RECURSIVE minimaxLoop(_, _, _, _, _, _, _)
minimaxLoop(orderedMoves, terminal, i, bestMove, bestScore, childScore, timeoutChild) ==
  IF i > Len(orderedMoves) THEN [score |-> bestScore, move |-> bestMove, timeout |-> FALSE]
  ELSE IF terminal[i] = <<>> /\ timeoutChild > 0 /\ i >= timeoutChild
       THEN [score |-> bestScore, move |-> bestMove, timeout |-> TRUE]
  ELSE IF (IF terminal[i] = <<>> THEN childScore[i] ELSE terminal[i][1]) > bestScore
       THEN minimaxLoop(orderedMoves, terminal, i + 1, orderedMoves[i],
                        IF terminal[i] = <<>> THEN childScore[i] ELSE terminal[i][1], childScore, timeoutChild)
       ELSE minimaxLoop(orderedMoves, terminal, i + 1, bestMove, bestScore, childScore, timeoutChild)

\* minimax(board, depth, -Infinity, Infinity, this.color) for a position with legal
\* moves and depth > 0; expired: the time limit has passed when the call begins
minimax(b, color, config, orderedMoves, terminal, expired, childScore, timeoutChild) ==
  IF expired
  THEN [score |-> evaluateAfter(orderedMoves[1], b, color, config), move |-> orderedMoves[1], timeout |-> TRUE]
  ELSE minimaxLoop(orderedMoves, terminal, 1, orderedMoves[1], -Infinity, childScore, timeoutChild)

\* lines 1259-1273 of iterativeDeepening: the loop variables after an iteration whose
\* minimax call returned result (which always holds a move at the root); completed
\* and timedOut remember the last result without a timeout and whether this one
\* had one
afterIteration(s, result) ==
  [s EXCEPT !.bestMove = <<result.move>>,
            !.bestScore = result.score,
            !.completed = IF result.timeout THEN @ ELSE <<[move |-> result.move, score |-> result.score]>>,
            !.timedOut = result.timeout,
            !.depth = @ + 1,
            !.pc = IF result.score > 15000 * EvalScale \/ -result.score > 15000 * EvalScale \/ result.timeout
                   THEN "finish" ELSE "search"]

\* lines 1276-1290 of iterativeDeepening: what it returns, given the loop variables
iterativeDeepeningResult(s, b) ==
  IF s.bestMove = <<>>
  THEN [move |-> s.ordered[1], score |-> evaluateAfter(s.ordered[1], b, s.color, s.config)]
  ELSE [move |-> s.bestMove[1], score |-> s.bestScore]

\* ------------------------------------------------------------ BotPlayer: imperfection
NoImperfection == [type |-> "none", originalMove |-> <<>>]

\* DecisionReport.formatMove of a move (formatMove(null) is null: <<>> here)
formatMove(move) ==
  [algebraic |-> <<move.from[2], 8 - move.from[1], move.to[2], 8 - move.to[1]>>,
   piece |-> move.piece,
   capture |-> IF Falsy(move.capturedPiece) THEN NONE ELSE move.capturedPiece,
   isPromotion |-> move.isPromotion]

\* applyImperfection(moves, bestMove): the move and report.imperfectionApplied, and
\* the branch that was taken ("blunder": line 1343, "mistake": line 1352, else "none").
\* blunderRoll and mistakeRoll are the two values of Math.random() in hundredths,
\* randomIdx and selectedIdx the two values of Math.floor(Math.random() * length),
\* scores[i] the evaluate of the position after moves[i]
applyImperfection(moves, bestMove, config, scores, blunderRoll, randomIdx, mistakeRoll, selectedIdx) ==
  IF Len(moves) <= 1 THEN [move |-> bestMove, imperfectionApplied |-> NoImperfection, branch |-> "none"]
  ELSE IF blunderRoll < config.blunderChance
  THEN [move |-> moves[randomIdx + 1],
        imperfectionApplied |-> [type |-> "blunder", originalMove |-> <<formatMove(bestMove)>>],
        branch |-> "blunder"]
  ELSE IF mistakeRoll < config.mistakeChance
  THEN IF selectedIdx > 0
       THEN [move |-> moves[sortDescending(scores)[selectedIdx + 1]],
             imperfectionApplied |-> [type |-> "suboptimal", originalMove |-> <<formatMove(bestMove)>>],
             branch |-> "mistake"]
       ELSE [move |-> bestMove, imperfectionApplied |-> NoImperfection, branch |-> "mistake"]
  ELSE [move |-> bestMove, imperfectionApplied |-> NoImperfection, branch |-> "none"]

\* ------------------------------------------------------------ BotPlayer: reports
MAX_REPORT_HISTORY == 100

\* DecisionReport.reset at the time now; the fields fen, openingBookAttempt and
\* searchStats are left out
newReport(time) ==
  [timestamp |-> time, botColor |-> "none", difficulty |-> "", fen |-> <<>>, moveNumber |-> 0,
   legalMoves |-> <<>>, moveEvaluations |-> <<>>, selectedMove |-> <<>>,
   selectedMoveScore |-> null, imperfectionApplied |-> NoImperfection, finalMove |-> <<>>]

\* a history that is never shortened
storeReportUnbounded(history, reportCopy) == Append(history, reportCopy)

\* storeReport: the new reportHistory
storeReport(history, reportCopy) ==
  IF Len(Append(history, reportCopy)) > MAX_REPORT_HISTORY
  THEN Tail(Append(history, reportCopy))
  ELSE Append(history, reportCopy)

\* the number of leaf positions of the legal-move tree of b at the given depth:
\* the children of a position are the positions makeMove gives for the entries of
\* the legal-move list of the side to move
RECURSIVE perft(_, _)
RECURSIVE perftOver(_, _, _, _)
perftOver(b, list, i, depth) ==
  IF i > Len(list) THEN 0
  ELSE perft(makeMove(b, list[i].fromSquare, list[i].toSquare, null).board, depth)
         + perftOver(b, list, i + 1, depth)

\* a count of all the positions of the tree but the root's leaves alone
perftNodes(b, depth) == IF depth = 0 THEN 1 ELSE 1 + perftOver(b, getLegalMovesForColor(b, b.gameState.active_color), 1, depth - 1)

perft(b, depth) ==
  IF depth = 0 THEN 1
  ELSE IF depth = 1 THEN Len(getLegalMovesForColor(b, b.gameState.active_color))
  ELSE perftOver(b, getLegalMovesForColor(b, b.gameState.active_color), 1, depth - 1)

\* ------------------------------------------------------------ the state machine
\* at most MaxFree plies of a game are played off the lines, after the end of a line
MaxFree == 1

VARIABLES
  board,    \* the Board object of the game
  free,     \* the number of plies played so far that were not the next move of a line
  lastOp,   \* "init", "make" or "undo": the last Board operation
  saved,    \* the Board as it was before the last makeMove
  pDepth,   \* the depth to which the legal-move tree of board has been counted
  pCount,   \* the number of leaves counted at that depth
  bot,      \* the BotPlayer: its settings, its place in makeMove, the variables of the search
  report,   \* this.report of the BotPlayer
  latestReport,   \* the module variable latestReport (<<>> for null)
  reportHistory,  \* the module variable reportHistory
  now,      \* the number of calls of BotPlayer.makeMove so far: the time of the reports
  colosseum,   \* the refs and the state of useColosseumHandlers (bot-versus-bot play)
  vsComputer,  \* the refs and the state of useVsComputerHandlers (a game against the computer)
  killerMoves  \* the KillerMoveOrdering of a BotPlayer, and the last cutoff of its search

\* the variables of the other specifications, idle while a game is played
perftVars == <<pDepth, pCount>>
botVars == <<bot, report, latestReport, reportHistory, now>>
uiVars == <<colosseum, vsComputer>>
aux == <<perftVars, botVars, uiVars, killerMoves>>

PerftIdle == pDepth = 0 /\ pCount = 1

\* a BotPlayer that is not deciding
IdleBot(config) ==
  [pc |-> "idle", config |-> config, color |-> "none", moves |-> <<>>,
   openingBookMove |-> <<>>, ordered |-> <<>>, orderedLearned |-> <<>>, terminal |-> <<>>, terminalLearned |-> <<>>, depth |-> 0, bestMove |-> <<>>,
   bestScore |-> -Infinity, completed |-> <<>>, timedOut |-> FALSE,
   result |-> <<>>, branch |-> "none", decided |-> FALSE, returned |-> <<>>]

BotIdle ==
  /\ bot = IdleBot(DIFFICULTY_CONFIG(CASUAL))
  /\ report = newReport(0)
  /\ latestReport = <<>>
  /\ reportHistory = <<>>
  /\ now = 0

\* no match in the colosseum
IdleColosseum ==
  [isRunning |-> FALSE, gameOver |-> FALSE, isProcessingMove |-> FALSE, stopRequested |-> FALSE,
   onStopCallback |-> FALSE, moveTimeout |-> <<>>, inFlight |-> <<>>, stopCalled |-> FALSE]

\* no game against the computer
IdleVsComputer ==
  [playerColor |-> "none", isBotMoving |-> FALSE, actionBuffer |-> <<>>, initialBotMoveDone |-> FALSE,
   timers |-> {}, thinking |-> <<>>, gameOver |-> FALSE, winner |-> "none", surrendered |-> "none", surrenders |-> 0]

MaxKillerPly == 2

\* new KillerMoveOrdering(): no killer at any ply; cutoff is the move that caused
\* the cutoff of the node searched last, if one did
NoKillers == [killerMoves |-> [ply \in 0..MaxKillerPly |-> <<>>], cutoff |-> <<>>]

UiIdle == colosseum = IdleColosseum /\ vsComputer = IdleVsComputer /\ killerMoves = NoKillers

AuxIdle == PerftIdle /\ BotIdle /\ UiIdle

vars == <<board, free, lastOp, saved, aux>>

\* the moves played so far, as <<fromSquare, toSquare, promotionPiece>>
Played(b) ==
  [i \in 1..Len(b.history.moves) |->
     <<b.history.moves[i].from, b.history.moves[i].to, b.history.moves[i].promotionPiece>>]

IsPrefix(p, l) == Len(p) <= Len(l) /\ SubSeq(l, 1, Len(p)) = p

\* the next moves of the lines that the game so far is a proper prefix of
NextOnLine(b) ==
  {l[Len(b.history.moves) + 1] :
     l \in {x \in Lines : Len(b.history.moves) < Len(x) /\ IsPrefix(Played(b), x)}}

\* the promotion pieces a caller may pass: omitted (null) or one of the four kinds
PromotionChoices(m) ==
  IF m.isPromotion THEN {null, QUEEN, ROOK, BISHOP, KNIGHT} ELSE {null}

Init ==
  /\ board = NewBoard
  /\ free = 0
  /\ lastOp = "init"
  /\ saved = NewBoard
  /\ AuxIdle

\* the next move of a line, played if the legal-move list of the side to move has it
LineMove ==
  /\ free = 0
  /\ \E s \in NextOnLine(board) :
       /\ \E m \in SeqToSet(getLegalMovesForColor(board, board.gameState.active_color)) :
            m.fromSquare = s[1] /\ m.toSquare = s[2]
       /\ board' = makeMove(board, s[1], s[2], s[3]).board
  /\ saved' = board
  /\ lastOp' = "make"
  /\ free' = 0
  /\ UNCHANGED aux

\* any move of the legal-move list of the side to move, once a line has been played
FreeMove ==
  /\ free < MaxFree
  /\ free > 0 \/ Played(board) \in Lines
  /\ \E m \in SeqToSet(getLegalMovesForColor(board, board.gameState.active_color)) :
       \E promotionPiece \in PromotionChoices(m) :
         board' = makeMove(board, m.fromSquare, m.toSquare, promotionPiece).board
  /\ saved' = board
  /\ lastOp' = "make"
  /\ free' = free + 1
  /\ UNCHANGED aux

\* Board.undoMove right after a makeMove
UndoMove ==
  /\ lastOp = "make"
  /\ board' = undoMove(board).board
  /\ lastOp' = "undo"
  /\ UNCHANGED <<free, saved, aux>>

Next == LineMove \/ FreeMove \/ UndoMove

Spec == Init /\ [][Next]_vars

\* ------------------------------------------------------------ the legal-move tree
\* the greatest depth to which the tree of the initial position is counted
MaxPerftDepth == 3
\* the positions whose trees are counted are at most this many plies from the
\* initial position, and the tree of a position at ply p > 0 is counted to depth
\* MaxPerftPly + 1 - p
MaxPerftPly == 2

PerftDepthAt(ply) == IF ply = 0 THEN MaxPerftDepth ELSE MaxPerftPly + 1 - ply

\* the position whose tree is counted is board; pCount = perft(board, pDepth)
PerftInit ==
  /\ board = NewBoard
  /\ free = 0
  /\ lastOp = "init"
  /\ saved = NewBoard
  /\ pDepth = 0
  /\ pCount = 1
  /\ BotIdle
  /\ UiIdle

\* count the tree one ply deeper
PerftDeepen ==
  /\ pDepth < PerftDepthAt(Len(board.history.moves))
  /\ pDepth' = pDepth + 1
  /\ pCount' = perft(board, pDepth + 1)
  /\ UNCHANGED <<board, free, lastOp, saved, botVars, uiVars, killerMoves>>

\* go to a child of the position
PerftDescend ==
  /\ Len(board.history.moves) < MaxPerftPly
  /\ \E m \in SeqToSet(getLegalMovesForColor(board, board.gameState.active_color)) :
       board' = makeMove(board, m.fromSquare, m.toSquare, null).board
  /\ saved' = board
  /\ pDepth' = 0
  /\ pCount' = 1
  /\ UNCHANGED <<free, lastOp, botVars, uiVars, killerMoves>>

PerftNext == PerftDeepen \/ PerftDescend

PerftSpec == PerftInit /\ [][PerftNext]_vars

\* ------------------------------------------------------------ the bot's decisions
\* at most MaxDecisions calls of BotPlayer.makeMove
MaxDecisions == 1

\* 6k1/5ppp/8/8/8/8/5PPP/R5K1, White to move: the fields of a Board holding this
\* position (the heuristics read history.moves only for its length, and the value
\* of the development heuristic is the same for every length in this position)
MateBoard ==
  LET none == [k \in Kinds |-> {}]
      bbP == [c \in {WHITE_IDX, BLACK_IDX} |->
                IF c = WHITE_IDX
                THEN [none EXCEPT ![KING] = {6}, ![ROOK] = {0}, ![PAWN] = {13, 14, 15}]
                ELSE [none EXCEPT ![KING] = {62}, ![PAWN] = {53, 54, 55}]]
      gs == [NewGameState EXCEPT !.castling = 0]
  IN [bbPieces |-> bbP,
      bbSide |-> [c \in {WHITE_IDX, BLACK_IDX} |-> UNION {bbP[c][k] : k \in Kinds}],
      pieceList |-> [s \in Squares |->
                       IF s \in {6, 62} THEN KING
                       ELSE IF s = 0 THEN ROOK
                       ELSE IF s \in {13, 14, 15, 53, 54, 55} THEN PAWN
                       ELSE NONE],
      gameState |-> [gs EXCEPT !.zobrist_key = zobristInit(bbP, gs)],
      history |-> NewHistory]

\* the settings of a bot: those of a difficulty, or those with blunderChance set to 0
BotConfigs ==
  {DIFFICULTY_CONFIG(d) : d \in DIFFICULTY} \cup {configureNoBlunder(DIFFICULTY_CONFIG(d)) : d \in DIFFICULTY}
  \cup {configureNoImperfection(DIFFICULTY_CONFIG(ROOKIE))}

\* the positions a bot is asked about: the initial position, the pinned pawn on c7,
\* the checkmate, the single reply, and the position set up directly
BotPositions == {<<>>, SubSeq(LinePinnedPromotion, 1, 12), LineFoolsMate, LineSingleReply}

\* the values of Math.random() that are drawn, in hundredths
Rolls == {0, 5, 50}

\* the scores the search below the root returns, times EvalScale: a pawn up, and
\* mate at ply 3
SearchScores == {100 * EvalScale, 19997 * EvalScale}

\* the child of the root with the greatest score, and the child whose search runs
\* out of time (0: none), among the n children
BestChildren(n) == {1, n}
TimeoutChildren(n) == {0, 1, 2, n}

BotInit ==
  /\ board \in {NewBoard, MateBoard}
  /\ free = IF board = NewBoard THEN 0 ELSE 1
  /\ lastOp = "init"
  /\ saved = board
  /\ PerftIdle
  /\ bot \in {IdleBot(config) : config \in BotConfigs}
  /\ report = newReport(0)
  /\ latestReport = <<>>
  /\ reportHistory = <<>>
  /\ now = 0
  /\ UiIdle

\* the game goes on along a line until a bot is asked
BotLineMove == bot.pc = "idle" /\ now = 0 /\ LineMove

\* what the killer moves and the history heuristic add to the scores of the moves
\* when they favour the last move of the list
learnedLast(n) == [i \in 1..n |-> IF i = n THEN 10000 ELSE 0]

MAX_OPENING_BOOK_MOVE == 15

\* lookupOpeningBookMove(board, moves), which makeMove calls when there are two
\* legal moves or more: null (<<>>), or the legal move the book answers with, here
\* the first of the legal-move list
lookupOpeningBookMove(b, config, moves) ==
  IF Len(moves) < 2 \/ (Len(b.history.moves) \div 2) + 1 > MAX_OPENING_BOOK_MOVE \/ ~config.useOpeningBook
  THEN {<<>>}
  ELSE {<<>>, <<moves[1]>>}

isOpeningBookMove(move, openingBookMove) ==
  /\ openingBookMove # <<>>
  /\ move.fromSquare = openingBookMove[1].fromSquare
  /\ move.toSquare = openingBookMove[1].toSquare

\* what orderMoves adds to the scores of the moves for the opening book
bookScores(moves, openingBookMove) ==
  [i \in 1..Len(moves) |-> IF isOpeningBookMove(moves[i], openingBookMove) THEN PRIORITY_OPENING_BOOK ELSE 0]

\* the search begins: the two orders in which minimax may go through the moves at
\* the root, and for each the children that end the game
searchBegins(asked, b, color, ordered, orderedLearned) ==
  [asked EXCEPT !.pc = "search", !.depth = asked.config.minDepth,
                !.ordered = ordered,
                !.orderedLearned = orderedLearned,
                !.terminal = [i \in 1..Len(ordered) |-> terminalScore(ordered[i], b, color)],
                !.terminalLearned = [i \in 1..Len(orderedLearned) |-> terminalScore(orderedLearned[i], b, color)]]

\* makeMove up to the search, for the legal moves of the position: no move (null is
\* returned and nothing stored), one move (returned at once), or the search begins
makeMoveBegins(s, rep, b, color, moves, bookMove) ==
  LET fresh == [newReport(rep.timestamp) EXCEPT
                  !.botColor = color, !.difficulty = s.config.name, !.fen = <<boardToFen(b)>>,
                  !.moveNumber = (Len(b.history.moves) \div 2) + 1,
                  !.legalMoves = [i \in 1..Len(moves) |-> formatMove(moves[i])]]
      asked == [IdleBot(s.config) EXCEPT !.color = color, !.moves = moves, !.decided = TRUE]
      searching == [asked EXCEPT !.openingBookMove = bookMove]
  IN IF Len(moves) = 0
     THEN [bot |-> asked, report |-> fresh, stored |-> FALSE]
     ELSE IF Len(moves) = 1
     THEN [bot |-> [asked EXCEPT !.returned = <<moves[1].from, moves[1].to>>],
           report |-> [fresh EXCEPT !.selectedMove = <<formatMove(moves[1])>>,
                                    !.finalMove = <<formatMove(moves[1])>>],
           stored |-> TRUE]
     ELSE [bot |-> searchBegins(searching, b, color, orderMoves(moves, b, color, s.config, bookScores(moves, bookMove)),
                                IF s.config.useKillerMoves \/ s.config.useHistoryHeuristic
                                THEN orderMoves(moves, b, color, s.config,
                                       [i \in 1..Len(moves) |-> bookScores(moves, bookMove)[i] + learnedLast(Len(moves))[i]])
                                ELSE orderMoves(moves, b, color, s.config, bookScores(moves, bookMove))),
           report |-> [fresh EXCEPT !.moveEvaluations =
                         [i \in 1..Len(moves) |-> evaluateAfter(moves[i], b, color, s.config)]],
           stored |-> FALSE]

\* the variables after the part of makeMove that ended in step
makeMoveStep(step) ==
  /\ bot' = step.bot
  /\ report' = step.report
  /\ latestReport' = IF step.stored THEN <<step.report>> ELSE latestReport
  /\ reportHistory' = IF step.stored THEN storeReport(reportHistory, step.report) ELSE reportHistory

\* BotPlayer.makeMove is called for the side to move, up to the search
BotMakeMove ==
  /\ bot.pc = "idle"
  /\ now < MaxDecisions
  /\ free > 0 \/ Played(board) \in BotPositions
  /\ now' = now + 1
  /\ \E bookMove \in lookupOpeningBookMove(board, bot.config, getLegalMovesForColor(board, board.gameState.active_color)) :
       makeMoveStep(makeMoveBegins(bot, newReport(now + 1), board, board.gameState.active_color,
                                   getLegalMovesForColor(board, board.gameState.active_color), bookMove))
  /\ UNCHANGED <<board, free, lastOp, saved, perftVars, uiVars, killerMoves>>

\* one iteration of the loop of iterativeDeepening: the loop ends (depth above
\* maxDepth, or 70% of the time used), or minimax runs at the root with the time
\* limit already passed, or with children that return scores until one times out
BotIterate ==
  /\ bot.pc = "search"
  /\ \/ bot' = [bot EXCEPT !.pc = "finish"]
     \/ /\ bot.depth <= bot.config.maxDepth
        /\ \E order \in {[moves |-> bot.ordered, terminal |-> bot.terminal],
                          [moves |-> bot.orderedLearned, terminal |-> bot.terminalLearned]} :
             \/ bot' = afterIteration(bot, minimax(board, bot.color, bot.config, order.moves, order.terminal, TRUE, <<>>, 0))
             \/ \E best \in BestChildren(Len(order.moves)), score \in SearchScores, timeoutChild \in TimeoutChildren(Len(order.moves)) :
                  bot' = afterIteration(bot, minimax(board, bot.color, bot.config, order.moves, order.terminal, FALSE,
                            [i \in 1..Len(order.moves) |-> IF i = best THEN score ELSE score - EvalScale], timeoutChild))
  /\ UNCHANGED <<board, free, lastOp, saved, perftVars, uiVars, killerMoves, report, latestReport, reportHistory, now>>

\* the outcomes of the random draws of applyImperfection for n moves: the rolls, the
\* index of the blunder and the index in the pool
RandomOutcomes(n, config) ==
  {[blunderRoll |-> r, randomIdx |-> i, mistakeRoll |-> 0, selectedIdx |-> 0] : r \in Rolls, i \in 0..(n - 1)}
  \cup {[blunderRoll |-> r[1], randomIdx |-> 0, mistakeRoll |-> r[2], selectedIdx |-> i] :
          r \in Rolls \X Rolls, i \in 0..(Min(config.moveSelectionPool, n) - 1)}

\* makeMove from the result of the search on: the imperfection, the report, the move
makeMoveEnds(s, rep, searched, picked) ==
  [bot |-> [IdleBot(s.config) EXCEPT
                     !.color = s.color, !.moves = s.moves, !.decided = TRUE,
                     !.completed = s.completed, !.timedOut = s.timedOut,
                     !.result = <<searched>>, !.branch = picked.branch,
                     !.returned = <<picked.move.from, picked.move.to>>],
   report |-> [rep EXCEPT !.selectedMove = <<formatMove(searched.move)>>,
                          !.selectedMoveScore = searched.score,
                          !.imperfectionApplied = picked.imperfectionApplied,
                          !.finalMove = <<formatMove(picked.move)>>],
   stored |-> TRUE]

\* applyImperfection called whatever the chances are, with the blunder chance of
\* the Rookie
imperfectionUnguarded(s, rep, bestMove, random) ==
  applyImperfection(s.moves, bestMove, [s.config EXCEPT !.blunderChance = 10], rep.moveEvaluations,
                    random.blunderRoll, random.randomIdx, random.mistakeRoll, random.selectedIdx)

\* applyImperfection as makeMove calls it: only if a chance is above 0
imperfectionOf(s, rep, bestMove, random) ==
  IF s.config.blunderChance > 0 \/ s.config.mistakeChance > 0
  THEN applyImperfection(s.moves, bestMove, s.config, rep.moveEvaluations,
                         random.blunderRoll, random.randomIdx, random.mistakeRoll, random.selectedIdx)
  ELSE [move |-> bestMove, imperfectionApplied |-> NoImperfection, branch |-> "none"]

\* the rest of makeMove: the result of the search, the imperfection, the report
\* stored, the move returned. The scores applyImperfection computes for its ranking
\* are those makeMove recorded in report.moveEvaluations: evaluate of simulateMove
\* of each move on this.board.
BotFinish ==
  /\ bot.pc = "finish"
  /\ \E random \in RandomOutcomes(Len(bot.moves), bot.config) :
       makeMoveStep(makeMoveEnds(bot, report, iterativeDeepeningResult(bot, board),
                                 imperfectionOf(bot, report, iterativeDeepeningResult(bot, board).move, random)))
  /\ UNCHANGED <<board, free, lastOp, saved, perftVars, uiVars, killerMoves, now>>

\* clearReportHistory()
ClearReportHistory ==
  /\ bot.pc = "idle"
  /\ reportHistory' = <<>>
  /\ latestReport' = <<>>
  /\ UNCHANGED <<board, free, lastOp, saved, perftVars, uiVars, killerMoves, bot, report, now>>

BotNext == BotLineMove \/ BotMakeMove \/ BotIterate \/ BotFinish \/ ClearReportHistory

BotSpec == BotInit /\ [][BotNext]_vars

\* ------------------------------------------------------------ the report history
\* One bot is asked for move after move on a position that stays as it is, and its
\* report history is cleared at any moment.
MaxReports == 102

\* the position after e2e4 f7f6 d1h5 (Black has the single reply g7g6) and the
\* position after f2f3 e7e5 g2g4 d8h4 (White is checkmated)
SingleReplyBoard ==
  makeMove(makeMove(makeMove(NewBoard, 12, 28, null).board, 53, 45, null).board, 3, 39, null).board
CheckmatedBoard ==
  makeMove(makeMove(makeMove(makeMove(NewBoard, 13, 21, null).board, 52, 36, null).board, 14, 30, null).board,
           59, 31, null).board

ReportInit ==
  /\ board \in {SingleReplyBoard, CheckmatedBoard}
  /\ free = 1
  /\ lastOp = "init"
  /\ saved = board
  /\ PerftIdle
  /\ BotIdle
  /\ UiIdle

\* BotPlayer.makeMove on a position with at most one legal move: it returns before
\* the search
ReportMakeMove ==
  /\ bot.pc = "idle"
  /\ now < MaxReports
  /\ Len(getLegalMovesForColor(board, board.gameState.active_color)) <= 1
  /\ now' = now + 1
  /\ makeMoveStep(makeMoveBegins(bot, newReport(now + 1), board, board.gameState.active_color,
                                 getLegalMovesForColor(board, board.gameState.active_color), <<>>))
  /\ UNCHANGED <<board, free, lastOp, saved, perftVars, uiVars, killerMoves>>

ReportNext == ReportMakeMove \/ ClearReportHistory

ReportSpec == ReportInit /\ [][ReportNext]_vars

\* ------------------------------------------------------------ properties
\* the record of the move made last
LastMove(b) == b.history.moves[Len(b.history.moves)]

\* the <<fromSquare, toSquare>> pairs of the legal-move list of the side to move
LegalPairs(b) ==
  {<<m.fromSquare, m.toSquare>> :
     m \in SeqToSet(getLegalMovesForColor(b, b.gameState.active_color))}

\* the same pairs for the pieces of one kind
LegalPairsOfKind(b, pieceType) ==
  UNION {{<<m.fromSquare, m.toSquare>> :
            m \in SeqToSet(legalMovesOfPiece(b, b.gameState.active_color, pieceType, sq))} :
         sq \in b.bbPieces[colorToIndex(b.gameState.active_color)][pieceType]}

\* C1: makeMove followed by undoMove restores the Board exactly (bitboards, piece list,
\* every GameState field and the history), for every legal move, a promotion with the
\* promotion piece omitted included.
C1_MakeUndoRestores == lastOp = "undo" => board = saved

\* C2: after any sequence of legal makeMove calls the incrementally maintained
\* zobrist_key equals the key zobristInit computes from scratch for the position.
C2_IncrementalKeyIsFromScratch ==
  lastOp = "make" =>
    board.gameState.zobrist_key = zobristInit(board.bbPieces, board.gameState)

\* the pseudo-legal moves of the side to move, as <<fromSquare, toSquare>>
PseudoLegalPairs(b) ==
  UNION {{<<sq, rowColToIndex(to[1], to[2])>> :
            to \in SeqToSet(getValidMoves(indexToRowCol(sq)[1], indexToRowCol(sq)[2], b, TRUE))} :
         sq \in b.bbSide[colorToIndex(b.gameState.active_color)]}

\* the mover's king is not attacked once the move is really made on the board
SafeWhenMade(b, pair) ==
  ~isInCheck(makeMove(b, pair[1], pair[2], null).board, b.gameState.active_color)

\* C3: the legal-move list of the side to move is exactly the set of its pseudo-legal
\* moves after which, once the move is really made, its own king is not attacked; pawn
\* moves that reach the last rank included.
C3_LegalListIsFiltered ==
  lastOp # "undo" =>
    LegalPairs(board) = {pair \in PseudoLegalPairs(board) : SafeWhenMade(board, pair)}

\* the bitboards <<colour, kind>> that have the bit of square s set
Holders(b, s) ==
  {ck \in {WHITE_IDX, BLACK_IDX} \X Kinds : s \in b.bbPieces[ck[1]][ck[2]]}

ListAndBitboardsAgree(b) ==
  \A s \in Squares :
    /\ \A k \in Kinds :
         (b.pieceList[s] = k) <=>
           (Cardinality(Holders(b, s)) = 1 /\ \E ck \in Holders(b, s) : ck[2] = k)
    /\ \A c \in {WHITE_IDX, BLACK_IDX} :
         (s \in b.bbSide[c]) <=> (\E k \in Kinds : s \in b.bbPieces[c][k])

\* C4: after every makeMove of a legal move and after every undoMove the piece list and
\* the bitboards agree on every square.
C4_ListAndBitboardsAgree == lastOp \in {"make", "undo"} => ListAndBitboardsAgree(board)

\* the move was a two-square pawn push
IsDoublePush(m) ==
  m.movingPiece = PAWN /\ (m.to - m.from = 16 \/ m.from - m.to = 16)

\* C5: after every makeMove en_passant_sq differs from -1 only if the move just made was
\* a two-square pawn push, and it is then the square the pawn passed over (rank 3 after a
\* white push, rank 6 after a black push); the en-passant field of the FEN after e2e4 is e3.
C5_EnPassantSquareIsPassedOver ==
  lastOp = "make" =>
    /\ board.gameState.en_passant_sq # -1 =>
         /\ IsDoublePush(LastMove(board))
         /\ board.gameState.en_passant_sq = (LastMove(board).from + LastMove(board).to) \div 2
    /\ Played(board) = <<<<12, 28, null>>>> => fenEnPassant(board) = <<4, 3>>

\* the corner and the owner of a castling bit
CornerOf(bit) ==
  CASE bit = WHITE_KINGSIDE -> SQ_H1
    [] bit = WHITE_QUEENSIDE -> SQ_A1
    [] bit = BLACK_KINGSIDE -> SQ_H8
    [] bit = BLACK_QUEENSIDE -> SQ_A8

OwnerOf(bit) == IF bit \in {WHITE_KINGSIDE, WHITE_QUEENSIDE} THEN "white" ELSE "black"

\* the move from position b clears the bit: the owner's king moves, the owner's rook
\* leaves the corner of the bit, or a rook is captured on that corner
ClearsBit(b, fromSquare, toSquare, bit) ==
  \/ b.pieceList[fromSquare] = KING /\ b.gameState.active_color = OwnerOf(bit)
  \/ b.pieceList[fromSquare] = ROOK /\ b.gameState.active_color = OwnerOf(bit)
     /\ fromSquare = CornerOf(bit)
  \/ b.pieceList[toSquare] = ROOK /\ toSquare = CornerOf(bit)

\* C6: makeMove never sets a castling bit and clears exactly the bits of a moving king,
\* of a rook leaving its corner and of a rook captured on its corner; with all four
\* rights, a1a2 (played here after a2a4 a7a5) leaves exactly K, k and q.
C6_CastlingBits ==
  lastOp = "make" =>
    /\ \A bit \in {WHITE_KINGSIDE, WHITE_QUEENSIDE, BLACK_KINGSIDE, BLACK_QUEENSIDE} :
         HasBit(board.gameState.castling, bit) <=>
           (HasBit(saved.gameState.castling, bit)
            /\ ~ClearsBit(saved, LastMove(board).from, LastMove(board).to, bit))
    /\ (saved.gameState.castling = CASTLING_ALL
        /\ LastMove(board).from = SQ_A1 /\ LastMove(board).to = SQ_A1 + 8) =>
         board.gameState.castling = WHITE_KINGSIDE + BLACK_KINGSIDE + BLACK_QUEENSIDE

\* the rook a1a2 has been played with all four rights
C6_Witness ==
  /\ lastOp = "make"
  /\ saved.gameState.castling = CASTLING_ALL
  /\ LastMove(board).from = SQ_A1 /\ LastMove(board).to = SQ_A1 + 8
  /\ saved.pieceList[SQ_A1] = ROOK
  /\ board.gameState.castling = WHITE_KINGSIDE + BLACK_KINGSIDE + BLACK_QUEENSIDE

\* the squares strictly between two squares of one rank, file or diagonal
Between(a, z) ==
  LET dr == (z \div 8) - (a \div 8)
      df == (z % 8) - (a % 8)
      sgn(x) == IF x > 0 THEN 1 ELSE IF x < 0 THEN -1 ELSE 0
      n == IF dr # 0 THEN (IF dr > 0 THEN dr ELSE -dr) ELSE (IF df > 0 THEN df ELSE -df)
  IN {a + i * (8 * sgn(dr) + sgn(df)) : i \in 1..(n - 1)}

\* a piece of colour byColor attacks square sq, by the rules of chess on the piece list
AttackedBy(b, sq, byColor) ==
  \E s \in Squares :
    LET dr == (sq \div 8) - (s \div 8)
        df == (sq % 8) - (s % 8)
        adr == IF dr < 0 THEN -dr ELSE dr
        adf == IF df < 0 THEN -df ELSE df
        k == b.pieceList[s]
        clear == \A x \in Between(s, sq) : b.pieceList[x] = NONE
    IN /\ s # sq
       /\ k # NONE
       /\ getPieceColor(b.bbSide, s) = byColor
       /\ \/ k = KNIGHT /\ <<adr, adf>> \in {<<1, 2>>, <<2, 1>>}
          \/ k = KING /\ adr <= 1 /\ adf <= 1
          \/ k = PAWN /\ adf = 1 /\ dr = (IF byColor = "white" THEN 1 ELSE -1)
          \/ k \in {ROOK, QUEEN} /\ (dr = 0 \/ df = 0) /\ clear
          \/ k \in {BISHOP, QUEEN} /\ adr = adf /\ clear

\* the castling moves in the legal-move list of the side to move
CastlingMoves(b) ==
  {pair \in LegalPairsOfKind(b, KING) : ((pair[2] % 8) - (pair[1] % 8)) \in {2, -2}}

\* the conditions of a castling move of the side to move, from the king's square to `to`
CastlingConditions(b, from, to) ==
  LET color == b.gameState.active_color
      kingSide == to > from
      bit == IF color = "white"
             THEN (IF kingSide THEN WHITE_KINGSIDE ELSE WHITE_QUEENSIDE)
             ELSE (IF kingSide THEN BLACK_KINGSIDE ELSE BLACK_QUEENSIDE)
      pass == IF kingSide THEN from + 1 ELSE from - 1
  IN /\ HasBit(b.gameState.castling, bit)
     /\ \A x \in Between(from, CornerOf(bit)) : b.pieceList[x] = NONE
     /\ ~AttackedBy(b, from, other(color))
     /\ ~AttackedBy(b, pass, other(color))
     /\ ~AttackedBy(b, to, other(color))

\* C7: a castling move is in the legal-move list only when its castling bit is set, the
\* squares between king and rook are empty, the king is not in check, and neither the
\* square the king passes over nor its destination is attacked; with the white king on e1
\* checked by a black rook on e8 along the open e-file White has no castling move.
C7_CastlingOnlyWhenAllowed ==
  lastOp # "undo" =>
    /\ \A pair \in CastlingMoves(board) : CastlingConditions(board, pair[1], pair[2])
    /\ Played(board) = LineCastleCheck => CastlingMoves(board) = {}

\* White may castle on both sides at the end of LineCastle
C7_Witness ==
  /\ Played(board) = LineCastle
  /\ CastlingMoves(board) = {<<4, 6>>, <<4, 2>>}

\* C8: in every position reached by playing moves of the legal-move list only, each
\* side has exactly one king on the board.
C8_OneKingEach ==
  \A c \in {WHITE_IDX, BLACK_IDX} : Cardinality(board.bbPieces[c][KING]) = 1

\* the legal moves of the side to move that capture en passant: a pawn moves diagonally
\* onto an empty square
EnPassantCaptures(b) ==
  LET color == b.gameState.active_color
      ontoEmpty(from, to) == from % 8 # to % 8 /\ b.pieceList[to] = NONE
      \* the pawns that have such a move among their pseudo-legal moves
      pawns == {sq \in b.bbPieces[colorToIndex(color)][PAWN] :
                  \E to \in SeqToSet(getValidPawnMoves(indexToRowCol(sq)[1],
                                                       indexToRowCol(sq)[2], b, color)) :
                    ontoEmpty(sq, rowColToIndex(to[1], to[2]))}
  IN UNION {{<<m.fromSquare, m.toSquare>> :
               m \in {x \in SeqToSet(legalMovesOfPiece(b, color, PAWN, sq)) :
                        ontoEmpty(x.fromSquare, x.toSquare)}} :
            sq \in pawns}

\* the game began e2e4 a7a6 e4e5 d7d5 and went on with another move than e5xd6
AfterDeclinedEnPassant(b) ==
  /\ Len(Played(b)) > Len(LineEnPassant)
  /\ IsPrefix(LineEnPassant, Played(b))
  /\ <<Played(b)[Len(LineEnPassant) + 1][1], Played(b)[Len(LineEnPassant) + 1][2]>> # <<36, 43>>

\* C9 as stated: after e2e4 a7a6 e4e5 d7d5 the legal moves include e5xd6, and once
\* another move has been played e5xd6 is in the legal-move list of no later position.
C9_NeverLegalLater ==
  /\ Played(board) = LineEnPassant => <<36, 43>> \in LegalPairs(board)
  /\ AfterDeclinedEnPassant(board) => <<36, 43>> \notin LegalPairs(board)

\* C9 amended: an en-passant capture is in the legal-move list only on the ply right
\* after the two-square push of the pawn it takes; after e2e4 a7a6 e4e5 d7d5 the list
\* includes e5xd6, and once another move has been played no later position of the game
\* has e5xd6 as an en-passant capture (it can only be the capture of a piece on d6).
C9_EnPassantOnlyNextPly ==
  /\ Played(board) = LineEnPassant => <<36, 43>> \in EnPassantCaptures(board)
  /\ \A pair \in EnPassantCaptures(board) :
       /\ Len(board.history.moves) > 0
       /\ IsDoublePush(LastMove(board))
       /\ LastMove(board).to = (pair[1] \div 8) * 8 + (pair[2] % 8)
  /\ AfterDeclinedEnPassant(board) => <<36, 43>> \notin EnPassantCaptures(board)

\* e5xd6 is listed as an en-passant capture right after d7d5
C9_Witness ==
  /\ Played(board) = LineEnPassant
  /\ lastOp = "make"
  /\ <<36, 43>> \in EnPassantCaptures(board)

\* the number of positions of the game, the current one included, that have the current
\* key and the same side to move
Occurrences(b) ==
  1 + Cardinality({i \in 1..Len(b.history.states) :
                     /\ b.history.states[i].zobrist_key = b.gameState.zobrist_key
                     /\ b.history.states[i].active_color = b.gameState.active_color})

\* C10: threefold repetition is reported exactly when the current key has occurred at
\* least three times with the same side to move; in the knight shuffle the key after ply
\* 4 and after ply 8 is the initial key, isDraw is false after ply 4 and true after ply 8.
C10_ThreefoldRepetition ==
  /\ hasThreefoldRepetition(board) <=> Occurrences(board) >= 3
  /\ Played(board) = SubSeq(LineShuffle, 1, 4) =>
       /\ board.gameState.zobrist_key = NewBoard.gameState.zobrist_key
       /\ ~isDraw(board, board.gameState.active_color)
  /\ Played(board) = LineShuffle =>
       /\ board.gameState.zobrist_key = NewBoard.gameState.zobrist_key
       /\ isDraw(board, board.gameState.active_color)

\* the shuffle has been played twice and the repetition is reported
C10_Witness ==
  /\ Played(board) = LineShuffle
  /\ lastOp = "make"
  /\ hasThreefoldRepetition(board)
  /\ Occurrences(board) = 3

\* the position k plies ago, recovered by undoMove
RECURSIVE undoTimes(_, _)
undoTimes(b, k) == IF k = 0 THEN b ELSE undoTimes(undoMove(b).board, k - 1)

\* the same pieces on the same squares, the same side to move and castling rights
SamePlacement(p, q) ==
  /\ p.gameState.active_color = q.gameState.active_color
  /\ p.gameState.castling = q.gameState.castling
  /\ p.bbPieces = q.bbPieces

\* the earlier positions of the game (as plies back) that are the current position,
\* en-passant captures included
TrueRepetitions(b) ==
  {k \in 1..Len(b.history.moves) :
     /\ b.history.states[Len(b.history.states) + 1 - k].active_color = b.gameState.active_color
     /\ SamePlacement(undoTimes(b, k), b)
     /\ EnPassantCaptures(undoTimes(b, k)) = EnPassantCaptures(b)}

\* C11: two positions with the same pieces, side to move and castling rights but
\* different en-passant possibilities have different Zobrist keys, and the
\* threefold-repetition test never counts them as the same position.
C11_EnPassantDistinguishesKeys ==
  lastOp = "make" =>
    /\ \A k \in 1..Len(board.history.moves) :
         (/\ board.history.states[Len(board.history.states) + 1 - k].active_color
               = board.gameState.active_color
          /\ SamePlacement(undoTimes(board, k), board)
          /\ EnPassantCaptures(undoTimes(board, k)) # EnPassantCaptures(board))
         => undoTimes(board, k).gameState.zobrist_key # board.gameState.zobrist_key
    /\ hasThreefoldRepetition(board) => 1 + Cardinality(TrueRepetitions(board)) >= 3

\* a pawn move or a capture (an en-passant capture is a pawn move)
ResetsClock(m) == m.movingPiece = PAWN \/ m.capturedPiece # NONE \/ m.enPassantCapture # null

\* the number of plies played since the last capture or pawn move
RECURSIVE PliesSinceReset(_, _)
PliesSinceReset(moves, n) ==
  IF n = 0 \/ ResetsClock(moves[n]) THEN 0 ELSE 1 + PliesSinceReset(moves, n - 1)

\* C20: after every makeMove half_move_clock is 0 if the move was a pawn move or a
\* capture and the previous value plus 1 otherwise; it always equals the number of
\* plies since the last capture or pawn move.
C20_HalfMoveClock ==
  /\ lastOp = "make" =>
       board.gameState.half_move_clock =
         IF ResetsClock(LastMove(board)) THEN 0 ELSE saved.gameState.half_move_clock + 1
  /\ board.gameState.half_move_clock = PliesSinceReset(board.history.moves, Len(board.history.moves))

\* a capture by a piece ends a run of quiet plies
C20_Witness ==
  /\ lastOp = "make"
  /\ LastMove(board).movingPiece # PAWN
  /\ LastMove(board).capturedPiece # NONE
  /\ saved.gameState.half_move_clock >= 2
  /\ board.gameState.half_move_clock = 0

\* the positions in the legal-move list of the moves of the pawn on fromSquare that
\* reach the last rank
PromotionEntries(list, fromSquare) ==
  {i \in 1..Len(list) : list[i].fromSquare = fromSquare /\ list[i].isPromotion}

\* C19: for a pawn that can legally reach exactly one square of the last rank, the
\* legal-move list contains four distinct moves to that square, one for each
\* promotion kind.
C19_FourPromotionMoves ==
  LET color == board.gameState.active_color
      list == getLegalMovesForColor(board, color)
  IN \A fromSquare \in board.bbPieces[colorToIndex(color)][PAWN] :
       LET entries == PromotionEntries(list, fromSquare)
       IN Cardinality({list[i].toSquare : i \in entries}) = 1
            => /\ Cardinality(entries) = 4
               /\ Cardinality({list[i] : i \in entries}) = 4

\* the published counts for the initial position
PerftExpected == <<20, 400, 8902, 197281, 4865609>>

Decided == bot.pc = "idle" /\ bot.decided

\* the move makeMove returned, as <<fromSquare, toSquare>>
ReturnedPair ==
  <<rowColToIndex(bot.returned[1][1], bot.returned[1][2]),
    rowColToIndex(bot.returned[2][1], bot.returned[2][2])>>

\* C12: whenever the bot's side has a legal move, BotPlayer.makeMove returns a move
\* (never null) that is a legal move of the position: it is in the legal-move list and
\* leaves the bot's king unattacked once made; for every difficulty, every moment
\* at which the time limit expires and every outcome of the random choices.
C12_BotReturnsLegalMove ==
  (Decided /\ Len(bot.moves) > 0) =>
    /\ bot.returned # <<>>
    /\ \E i \in 1..Len(bot.moves) : bot.returned = <<bot.moves[i].from, bot.moves[i].to>>
    /\ SafeWhenMade(board, ReturnedPair)

\* C13: when the time limit expires during an iteration that follows a completed one,
\* iterativeDeepening returns the best move and score of the last iteration that was
\* searched to completion; the result of the partly searched iteration never
\* replaces them.
C13_PartialIterationDiscarded ==
  (Decided /\ bot.timedOut /\ bot.completed # <<>>) => bot.result = bot.completed

\* the settings of the bot have blunderChance = 0 and mistakeChance = 0
NoChances == bot.config.blunderChance = 0 /\ bot.config.mistakeChance = 0

\* C14: with blunderChance = 0 and mistakeChance = 0, the move returned by
\* BotPlayer.makeMove is exactly the move the search (iterativeDeepening) returned
\* for that position (with a single legal move the search is not run and that move
\* is returned), and the report records no imperfection.
C14_NoChancesReturnSearchMove ==
  (Decided /\ NoChances /\ Len(bot.moves) > 0) =>
    /\ report.imperfectionApplied = NoImperfection
    /\ IF Len(bot.moves) = 1
       THEN bot.result = <<>> /\ bot.returned = <<bot.moves[1].from, bot.moves[1].to>>
       ELSE /\ bot.result # <<>>
            /\ bot.returned = <<bot.result[1].move.from, bot.result[1].move.to>>
            /\ report.finalMove = <<formatMove(bot.result[1].move)>>
            /\ report.finalMove = report.selectedMove

\* a bot without chances has searched a position with several legal moves and
\* returned a move that is not the first of the legal-move list
C14_Witness ==
  /\ Decided
  /\ NoChances
  /\ bot.config.name = "Rookie"
  /\ Len(bot.moves) > 1
  /\ bot.result # <<>>
  /\ bot.returned = <<bot.result[1].move.from, bot.result[1].move.to>>
  /\ bot.returned # <<bot.moves[1].from, bot.moves[1].to>>

\* the mating move a1a8, as makeMove returns it: {from: [7, 0], to: [0, 0]}
a1a8 == <<<<7, 0>>, <<0, 0>>>>

\* the search ended with an iteration that was searched to completion
SearchedInTime == bot.completed # <<>> /\ ~bot.timedOut

\* C15: from the position 6k1/5ppp/8/8/8/8/5PPP/R5K1 with White to move, a white bot of
\* each difficulty whose blunderChance is 0 returns the mating move a1a8 when its
\* search ran within the time limit, whatever the outcome of the random choices.
C15_MateInOneReturned ==
  (Decided /\ board = MateBoard /\ bot.config.blunderChance = 0 /\ SearchedInTime) => bot.returned = a1a8

\* the legal moves of the position the bot was asked about whose 1-ply static
\* evaluation, recorded in the report, is above that of move i
RankedAbove(i) == {j \in 1..Len(bot.moves) : report.moveEvaluations[j] > report.moveEvaluations[i]}

\* the moves that are among the top moveSelectionPool moves of that ranking, however
\* moves of equal evaluation are ordered
TopPool ==
  {<<bot.moves[i].from, bot.moves[i].to>> : i \in {k \in 1..Len(bot.moves) :
      Cardinality(RankedAbove(k)) < Min(bot.config.moveSelectionPool, Len(bot.moves))}}

\* the move returned differs from the move the search returned
PickedDiffers == bot.returned # <<bot.result[1].move.from, bot.result[1].move.to>>

\* C16: when the mistake branch of the imperfection step is taken, the move is
\* picked from the top moveSelectionPool legal moves ranked by 1-ply static
\* evaluation, and a 'suboptimal' imperfection is recorded in the report exactly
\* when the picked move differs from the search's best move.
C16_MistakeBranch ==
  (Decided /\ bot.branch = "mistake") =>
    /\ bot.returned \in TopPool
    /\ report.imperfectionApplied.type = "suboptimal" <=> PickedDiffers

\* what a step does to the report history: a decision that returns a move stores
\* its report at the end and, if the history then exceeds 100, drops the oldest
\* report; a decision without a legal move stores nothing; clearReportHistory
\* empties the history and the latest report
HistoryStep ==
  IF now' # now
  THEN IF bot'.returned = <<>>
       THEN reportHistory' = reportHistory /\ latestReport' = latestReport
       ELSE /\ latestReport' = <<report'>>
            /\ reportHistory' = IF Len(reportHistory) = 100
                                THEN Append(Tail(reportHistory), report')
                                ELSE Append(reportHistory, report')
  ELSE reportHistory' = <<>> /\ latestReport' = <<>>

\* the history after the step: at most 100 reports, in the order they were stored
\* (their timestamps grow), the latest report being the last of them and null
\* exactly when the history is empty
HistoryShape ==
  /\ Len(reportHistory') <= 100
  /\ \A i \in 1..(Len(reportHistory') - 1) : reportHistory'[i].timestamp < reportHistory'[i + 1].timestamp
  /\ latestReport' = <<>> <=> reportHistory' = <<>>
  /\ reportHistory' # <<>> => latestReport' = <<reportHistory'[Len(reportHistory')]>>

\* C17: after any sequence of bot decisions and clearReportHistory calls, the report
\* history holds at most 100 reports in the order they were stored, storing into a
\* full history evicts exactly the oldest report, and the latest report is the most
\* recently stored one (it is null exactly when nothing was stored since the last
\* clear).
C17_ReportHistory == [][HistoryStep /\ HistoryShape]_vars

\* 102 reports were stored without a clear: the two oldest are gone
C17_Witness ==
  /\ Len(reportHistory) = 100
  /\ reportHistory[1].timestamp = 3
  /\ reportHistory[100].timestamp = 102
  /\ latestReport = <<reportHistory[100]>>

\* the pawns of the side on the file, and what they add together to the side's
\* pawn-structure score for doubled pawns
PawnsOnFile(colorIdx, col) == {sq \in board.bbPieces[colorIdx][PAWN] : sq % 8 = col}
DoubledPenalty(colorIdx, col) ==
  SumSeq([i \in 1..Cardinality(PawnsOnFile(colorIdx, col)) |->
            -doubledPawnTerm(board, colorIdx, drain(PawnsOnFile(colorIdx, col))[i])])

\* C21: for a side with n > 1 pawns on one file, the pawn-structure score of that
\* side contains a doubled-pawn penalty of 12*(n-1) for that file (12 for two pawns,
\* 24 for three).
C21_DoubledPawnPenalty ==
  \A colorIdx \in {WHITE_IDX, BLACK_IDX} : \A col \in 0..7 :
    Cardinality(PawnsOnFile(colorIdx, col)) > 1 =>
      DoubledPenalty(colorIdx, col) = 12 * (Cardinality(PawnsOnFile(colorIdx, col)) - 1)

\* C22: in move ordering, an opening-book move that is present for the current
\* decision has the highest priority: at the root it is placed before every other
\* legal move in the ordered list (the list minimax goes through in the first
\* iteration, when no killer move and no history score exists yet).
C22_BookMoveFirst ==
  (bot.pc = "search" /\ bot.openingBookMove # <<>>) => bot.ordered[1] = bot.openingBookMove[1]

\* the score minimax gets for the position as a depth-0 node, the side to move
\* being the opponent of a bot of the given difficulty
LeafScoreForOpponentToMove(difficulty) ==
  depthZeroScore(board, -Infinity, Infinity, board.gameState.active_color,
                 other(board.gameState.active_color), DIFFICULTY_CONFIG(difficulty))

\* C23: every score that minimax compares with alpha, beta or another move's score
\* is expressed from the bot's own colour: the value returned for a depth-0 node
\* where the opponent is to move is the evaluation from the bot's perspective,
\* without quiescence (Rookie) and with quiescence when the node has no capture
\* (Casual).
C23_LeafFromBotPerspective ==
  hasValidMoves(board.gameState.active_color, board) =>
    /\ LeafScoreForOpponentToMove(ROOKIE)
         = evaluate(board, other(board.gameState.active_color), DIFFICULTY_CONFIG(ROOKIE))
    /\ Len(quiescenceCaptures(board, board.gameState.active_color)) = 0 =>
         LeafScoreForOpponentToMove(CASUAL)
           = evaluate(board, other(board.gameState.active_color), DIFFICULTY_CONFIG(CASUAL))

\* the board simulateMove returns for the move is the position after it
IsChildPosition(move) ==
  LET child == simulateMove(move.from[1], move.from[2], move.to[1], move.to[2], board).board
  IN /\ child.pieceList[move.fromSquare] = NONE
     /\ child.pieceList[move.toSquare] = (IF move.isPromotion THEN QUEEN ELSE move.piece)
        \/ (move.isPromotion /\ child.pieceList[move.toSquare] \in {ROOK, BISHOP, KNIGHT})
     /\ child.gameState.active_color = other(board.gameState.active_color)

\* C24: for every move in a legal-move list, the board returned by simulateMove,
\* which minimax, quiescence and the per-move report evaluation use as the child
\* position, is the position after that move: the moved piece (or the promoted
\* piece) stands on the target square, the origin square is empty and the side to
\* move is the opponent.
C24_SimulateMoveGivesChild ==
  \A move \in SeqToSet(getLegalMovesForColor(board, board.gameState.active_color)) : IsChildPosition(move)

\* ---------------------------------------------------------------------------
\* Bot-versus-bot play: useColosseumHandlers.
\* A handler runs to its end (or to its await) without interruption; the render
\* that its state updates cause, with the effects' cleanups and the effects,
\* follows it before the next timer or click, and is part of the same step.
\* A closure is the data a timer callback has captured from the render that
\* made it: isRunning, gameOver and boardObj.
\* ---------------------------------------------------------------------------

MaxColosseumMoves == 4

closureOf(c, b) == [isRunning |-> c.isRunning, gameOver |-> c.gameOver, boardObj |-> b]

\* scheduleMove of the render that made the closure
scheduleMove(c, closure) ==
  IF ~c.isProcessingMove /\ ~closure.gameOver /\ closure.isRunning
  THEN [c EXCEPT !.moveTimeout = <<closure>>]
  ELSE c

\* the rest of the timer callback, after await executeMove()
afterExecuteMove(c, closure) ==
  IF closure.isRunning /\ ~closure.gameOver THEN scheduleMove(c, closure) ELSE c

\* a render in which boardObj, isRunning or gameOver has changed: the cleanups
\* clear the move timeout, then the effect schedules a move if the match runs
renderColosseum(c, b) ==
  LET cleaned == [c EXCEPT !.moveTimeout = <<>>]
  IN IF ~cleaned.isRunning \/ cleaned.gameOver
     THEN cleaned
     ELSE scheduleMove(cleaned, closureOf(cleaned, b))

\* the moves a bot may return: null when there is no legal move, else a legal move
firstAndLast(moves) == IF Len(moves) = 0 THEN {} ELSE {moves[1], moves[Len(moves)]}

orNull(moves) == IF moves = {} THEN {<<>>} ELSE {<<m>> : m \in moves}

colosseumBotMoves(b) == orNull(firstAndLast(getLegalMovesForColor(b, b.gameState.active_color)))

\* the board executeMove sets for the move the bot returned
colosseumNewBoard(boardObj, move) ==
  LET currentColor == boardObj.gameState.active_color
      fromIndex == rowColToIndex(move.from[1], move.from[2])
      toIndex == rowColToIndex(move.to[1], move.to[2])
      piece == boardObj.pieceList[fromIndex]
      isPromotion == piece = PAWN /\ ((currentColor = "white" /\ move.to[1] = 0)
                                      \/ (currentColor = "black" /\ move.to[1] = 7))
  IN makeMove(boardObj, fromIndex, toIndex, IF isPromotion THEN QUEEN ELSE null).board

\* executeMove from the bot's answer on: the move is applied unless a stop was
\* requested; finally clears the processing flag and, if a stop was requested
\* with a callback, calls the callback and clears the request
executeMoveEnds(c, applied, newBoard) ==
  LET over == applied /\ ~hasValidMoves(newBoard.gameState.active_color, newBoard)
      stopped == c.stopRequested /\ c.onStopCallback
  IN [c EXCEPT !.inFlight = <<>>,
               !.isProcessingMove = FALSE,
               !.gameOver = c.gameOver \/ over,
               !.onStopCallback = IF stopped THEN FALSE ELSE c.onStopCallback,
               !.stopRequested = IF stopped THEN FALSE ELSE c.stopRequested]

ColosseumInit ==
  /\ board = NewBoard
  /\ free = 0
  /\ lastOp = "init"
  /\ saved = NewBoard
  /\ PerftIdle
  /\ BotIdle
  /\ vsComputer = IdleVsComputer
  /\ killerMoves = NoKillers
  /\ colosseum = renderColosseum([IdleColosseum EXCEPT !.isRunning = TRUE], NewBoard)

\* the move timeout fires: executeMove up to its await, or to its early return
\* and then the rest of the timer callback
TimerFires ==
  /\ colosseum.moveTimeout # <<>>
  /\ Len(board.history.moves) < MaxColosseumMoves
  /\ LET closure == colosseum.moveTimeout[1]
         fired == [colosseum EXCEPT !.moveTimeout = <<>>]
     IN colosseum' =
          IF closure.gameOver \/ colosseum.stopRequested \/ colosseum.isProcessingMove
          THEN afterExecuteMove(fired, closure)
          ELSE [fired EXCEPT !.isProcessingMove = TRUE, !.inFlight = <<closure>>]
  /\ UNCHANGED <<board, free, lastOp, saved, perftVars, botVars, vsComputer, killerMoves>>

\* the bot's decision completes: the rest of executeMove, the rest of the timer
\* callback, and the render if the board was set
DecisionCompletes ==
  /\ colosseum.inFlight # <<>>
  /\ LET closure == colosseum.inFlight[1]
     IN \E move \in colosseumBotMoves(closure.boardObj) :
          LET applied == move # <<>> /\ ~colosseum.stopRequested
              newBoard == IF applied THEN colosseumNewBoard(closure.boardObj, move[1]) ELSE board
              ended == afterExecuteMove(executeMoveEnds(colosseum, applied, newBoard), closure)
          IN /\ board' = newBoard
             /\ colosseum' = IF applied THEN renderColosseum(ended, newBoard) ELSE ended
             /\ saved' = IF applied THEN closure.boardObj ELSE saved
             /\ lastOp' = IF applied THEN "make" ELSE lastOp
  /\ UNCHANGED <<free, perftVars, botVars, vsComputer, killerMoves>>

\* the Stop Match button, shown while the match runs: stopMatch with a callback,
\* and the render that setIsRunning(false) causes
StopMatch ==
  /\ colosseum.isRunning /\ ~colosseum.gameOver
  /\ LET requested == [colosseum EXCEPT !.stopRequested = TRUE, !.isRunning = FALSE, !.stopCalled = TRUE]
         stopped == IF colosseum.isProcessingMove
                    THEN [requested EXCEPT !.onStopCallback = TRUE]
                    ELSE [requested EXCEPT !.moveTimeout = <<>>]
     IN colosseum' = renderColosseum(stopped, board)
  /\ UNCHANGED <<board, free, lastOp, saved, perftVars, botVars, vsComputer, killerMoves>>

ColosseumNext == TimerFires \/ DecisionCompletes \/ StopMatch

ColosseumSpec == ColosseumInit /\ [][ColosseumNext]_vars

\* C25: in bot-versus-bot play, once stopMatch has been called no bot move is
\* applied to the board any more, whatever the order of the move timer, the
\* completion of the decision and the stop request.
C25_NoMoveAfterStop == [][colosseum.stopCalled => board' = board]_vars

\* ---------------------------------------------------------------------------
\* A game against the computer: useVsComputerHandlers.
\* As in the colosseum, a handler and the render it causes are one step.
\* A timer is the setTimeout callback that will call processBotMove(boardObj):
\* aliased says that its boardObj is the very object the game state holds (which
\* handleUndo changes in place), effect that the initial-bot-move effect set it
\* (so the effect's cleanup clears it).
\* ---------------------------------------------------------------------------

MaxVsPlies == 3
MaxVsTimers == 2

\* the effects that run when boardObj or gameOver has changed: the players are
\* initialized again after a change of boardObj (lines 93-101), and the
\* initial-bot-move effect is cleaned up and run again (lines 205-219)
renderVsComputer(v, b, boardChanged) ==
  LET cleaned == [v EXCEPT !.timers = {t \in v.timers : ~t.effect}]
      players == IF boardChanged
                 THEN [cleaned EXCEPT !.isBotMoving = FALSE, !.actionBuffer = <<>>,
                                      !.initialBotMoveDone = FALSE]
                 ELSE cleaned
  IN IF players.gameOver
     THEN players
     ELSE IF players.playerColor = "black" /\ b.gameState.active_color = "white"
             /\ ~players.initialBotMoveDone
          THEN [players EXCEPT !.initialBotMoveDone = TRUE,
                               !.timers = @ \cup {[boardObj |-> b, aliased |-> TRUE, effect |-> TRUE]}]
          ELSE players

\* setBoard(newBoard): no timer's board is the object of the game state any more
unaliased(timers) == {[t EXCEPT !.aliased = FALSE] : t \in timers}

\* the end of makeMove and of executeBotMove: the game is over if the side to
\* move has no move
gameOverAfter(v, newBoard, currentColor) ==
  LET nextTurnColor == newBoard.gameState.active_color
  IN IF ~hasValidMoves(nextTurnColor, newBoard)
     THEN [v EXCEPT !.gameOver = TRUE,
                    !.winner = IF isInCheck(newBoard, nextTurnColor) THEN currentColor ELSE "draw"]
     ELSE v

\* the moves of the side to move that the model plays: the first and the last
\* of the legal-move list that are not promotions
vsMoves(b) ==
  firstAndLast(SelectSeq(getLegalMovesForColor(b, b.gameState.active_color), LAMBDA m : ~m.isPromotion))

\* the bot's answer: null when it has no move
vsBotMoves(b) == orNull(vsMoves(b))

\* the board executeBotMove sets for a move that is not a promotion
executeBotMove(move, currentBoard) ==
  makeMove(currentBoard, rowColToIndex(move.from[1], move.from[2]),
           rowColToIndex(move.to[1], move.to[2]), null).board

\* handleUndo of a render whose boardObj is b, when no bot is moving
undoTaken(v, b) ==
  [v EXCEPT !.timers = {[boardObj |-> IF t.aliased THEN undoMove(b).board ELSE t.boardObj,
                         aliased |-> FALSE, effect |-> t.effect] : t \in v.timers}]

\* handleSurrender of a render whose turn is turn, when no bot is moving
surrenderTaken(v, turn) ==
  [v EXCEPT !.winner = IF turn = "white" THEN "black" ELSE "white",
            !.gameOver = TRUE,
            !.surrenders = v.surrenders + 1]

VsComputerInit ==
  /\ board = NewBoard
  /\ free = 0
  /\ lastOp = "init"
  /\ saved = NewBoard
  /\ PerftIdle
  /\ BotIdle
  /\ colosseum = IdleColosseum
  /\ killerMoves = NoKillers
  /\ \E playerColor \in {"white", "black"} :
       vsComputer = renderVsComputer([IdleVsComputer EXCEPT !.playerColor = playerColor], NewBoard, TRUE)

\* the human selects a piece and clicks a square it can move to:
\* handleSquareClick and makeMove
HumanMove ==
  /\ ~vsComputer.gameOver /\ ~vsComputer.isBotMoving
  /\ board.gameState.active_color = vsComputer.playerColor
  /\ Len(board.history.moves) < MaxVsPlies
  /\ Cardinality(vsComputer.timers) < MaxVsTimers
  /\ \E m \in vsMoves(board) :
       \E newBoard \in {executeBotMove(m, board)} :
         \E over \in {gameOverAfter([vsComputer EXCEPT !.timers = unaliased(@)], newBoard,
                                    board.gameState.active_color)} :
           \E scheduled \in {IF ~over.gameOver /\ newBoard.gameState.active_color # over.playerColor
                             THEN [over EXCEPT !.timers = @ \cup {[boardObj |-> newBoard, aliased |-> TRUE, effect |-> FALSE]}]
                             ELSE over} :
             /\ board' = newBoard
             /\ vsComputer' = renderVsComputer(scheduled, newBoard, TRUE)
  /\ saved' = board
  /\ lastOp' = "make"
  /\ UNCHANGED <<free, perftVars, botVars, colosseum, killerMoves>>

\* a timer fires: processBotMove up to its await, or to one of its early returns.
\* The effect's timer (1000 ms) is set in the render that follows the handler
\* that set a move timer (500 ms), so it fires after it.
BotTimerFires ==
  /\ \E t \in vsComputer.timers :
       /\ t.effect => \A u \in vsComputer.timers : u.effect
       /\ \E fired \in {[vsComputer EXCEPT !.timers = @ \ {t}]} :
            vsComputer' =
              IF vsComputer.isBotMoving \/ t.boardObj.gameState.active_color = vsComputer.playerColor
              THEN fired
              ELSE [fired EXCEPT !.isBotMoving = TRUE, !.thinking = <<t.boardObj>>]
  /\ UNCHANGED <<board, free, lastOp, saved, perftVars, botVars, colosseum, killerMoves>>

\* the buffered action that the finally block of processBotMove calls
bufferedAction(v, action) ==
  IF action = <<>> THEN v
  ELSE IF action[1].kind = "surrender" THEN surrenderTaken(v, action[1].turn)
  ELSE IF Len(action[1].boardObj.history.moves) > 0 THEN undoTaken(v, action[1].boardObj)
  ELSE v

\* the bot's decision completes: executeBotMove, then the finally block with the
\* buffered action, then the render
BotDecisionCompletes ==
  /\ vsComputer.thinking # <<>>
  /\ \E currentBoard \in {vsComputer.thinking[1]} :
       \E move \in vsBotMoves(currentBoard) :
         \E newBoard \in {IF move = <<>> THEN board ELSE executeBotMove(move[1], currentBoard)} :
           \E done \in {[vsComputer EXCEPT !.thinking = <<>>, !.isBotMoving = FALSE, !.actionBuffer = <<>>]} :
             \E moved \in {IF move = <<>> THEN done
                           ELSE gameOverAfter([done EXCEPT !.timers = unaliased(@)], newBoard,
                                              currentBoard.gameState.active_color)} :
               \E undoes \in {vsComputer.actionBuffer # <<>> /\ vsComputer.actionBuffer[1].kind = "undo"
                              /\ Len(vsComputer.actionBuffer[1].boardObj.history.moves) > 0} :
                 \E last \in {IF undoes THEN undoMove(vsComputer.actionBuffer[1].boardObj).board ELSE newBoard} :
                   /\ board' = last
                   /\ vsComputer' = renderVsComputer(bufferedAction(moved, vsComputer.actionBuffer), last, TRUE)
                   /\ saved' = IF undoes \/ move = <<>> THEN saved ELSE currentBoard
                   /\ lastOp' = IF undoes THEN "undo" ELSE IF move = <<>> THEN lastOp ELSE "make"
  /\ UNCHANGED <<free, perftVars, botVars, colosseum, killerMoves>>

\* the Undo button: handleUndo
HandleUndo ==
  /\ ~vsComputer.gameOver
  /\ IF vsComputer.isBotMoving
     THEN /\ vsComputer' = [vsComputer EXCEPT !.actionBuffer = <<[kind |-> "undo", boardObj |-> board, turn |-> board.gameState.active_color]>>]
          /\ UNCHANGED <<board, lastOp>>
     ELSE /\ Len(board.history.moves) > 0
          /\ \E undone \in {undoMove(board).board} :
               /\ board' = undone
               /\ vsComputer' = renderVsComputer(undoTaken(vsComputer, board), undone, TRUE)
          /\ lastOp' = "undo"
  /\ UNCHANGED <<free, saved, perftVars, botVars, colosseum, killerMoves>>

\* the Surrender button: handleSurrender
HandleSurrender ==
  /\ ~vsComputer.gameOver
  /\ vsComputer.surrendered = "none"
  /\ \E turn \in {board.gameState.active_color} :
       \E asked \in {[vsComputer EXCEPT !.surrendered =
                        IF vsComputer.isBotMoving THEN "thinking"
                        ELSE IF turn = vsComputer.playerColor THEN "humanTurn" ELSE "botTurn"]} :
         vsComputer' =
           IF vsComputer.isBotMoving
           THEN [asked EXCEPT !.actionBuffer = <<[kind |-> "surrender", boardObj |-> board, turn |-> turn]>>]
           ELSE renderVsComputer(surrenderTaken(asked, turn), board, FALSE)
  /\ UNCHANGED <<board, free, lastOp, saved, perftVars, botVars, colosseum, killerMoves>>

VsComputerNext == HumanMove \/ BotTimerFires \/ BotDecisionCompletes \/ HandleUndo \/ HandleSurrender

VsComputerSpec == VsComputerInit /\ [][VsComputerNext]_vars

\* a bot move is under way or will come: a decision is in flight, or a timer is
\* set whose processBotMove will find the bot to move
BotMoveComing ==
  \/ vsComputer.thinking # <<>>
  \/ \E t \in vsComputer.timers : t.boardObj.gameState.active_color # vsComputer.playerColor

\* C26: in a game against the computer that is not over, after handleUndo has
\* taken effect either the human is the side to move, or the bot is the side to
\* move and a bot decision is in flight or scheduled.
C26_UndoLeavesGamePlayable ==
  (lastOp = "undo" /\ ~vsComputer.gameOver)
    => (board.gameState.active_color = vsComputer.playerColor \/ BotMoveComing)

\* C27: when the human surrenders in a game against the computer, on the
\* human's turn or while the bot is thinking, the bot's colour is declared the
\* winner; a surrender requested while the bot is thinking takes effect exactly
\* once, after the bot's decision has completed.
C27_SurrenderBotWins ==
  /\ (vsComputer.surrendered \in {"humanTurn", "thinking"} /\ vsComputer.surrenders > 0)
       => vsComputer.winner = other(vsComputer.playerColor)
  /\ (vsComputer.surrendered = "thinking" /\ vsComputer.thinking # <<>>) => vsComputer.surrenders = 0
  /\ (vsComputer.surrendered = "thinking" /\ vsComputer.thinking = <<>>) => vsComputer.surrenders = 1
  /\ vsComputer.surrenders <= 1

\* a call of BotPlayer.makeMove completes in this step
CallCompletes == bot'.pc = "idle" /\ bot'.decided /\ (bot.pc = "finish" \/ now' # now)

\* the final move of a report is the move <<from, to>> that was returned
IsFinalMoveOf(returned, rep) ==
  IF returned = <<>>
  THEN rep.finalMove = <<>>
  ELSE /\ rep.finalMove # <<>>
       /\ rep.finalMove[1].algebraic =
            <<returned[1][2], 8 - returned[1][1], returned[2][2], 8 - returned[2][1]>>

\* C28: after every completed call of BotPlayer.makeMove the latest stored
\* report is the report of that call: its FEN is the position the call was made
\* on and its final move is the move the call returned (none when it returned
\* null); it is not the report of an earlier decision.
C28_LatestReportDescribesCall ==
  [][CallCompletes =>
       /\ latestReport' # <<>>
       /\ latestReport'[1].timestamp = now'
       /\ latestReport'[1].fen = <<boardToFen(board)>>
       /\ IsFinalMoveOf(bot'.returned, latestReport'[1])]_vars

\* ---------------------------------------------------------------------------
\* Rejected Board operations: the games of Spec, with calls of makeMove whose
\* squares are out of range and calls of undoMove that return false.
\* ---------------------------------------------------------------------------

\* the squares a rejected call is made with: below and above the board, and a
\* square of the board
RejectSquares == {-1, 12, 64}

\* Board.makeMove with a from or to square outside 0..63
RejectedMove ==
  /\ \E fromSquare \in RejectSquares, toSquare \in RejectSquares, promotionPiece \in {null, QUEEN} :
       /\ ~makeMove(board, fromSquare, toSquare, promotionPiece).ret
       /\ board' = makeMove(board, fromSquare, toSquare, promotionPiece).board
  /\ saved' = board
  /\ lastOp' = "rejectedMove"
  /\ UNCHANGED <<free, aux>>

\* Board.undoMove that returns false
RejectedUndo ==
  /\ ~undoMove(board).ret
  /\ board' = undoMove(board).board
  /\ saved' = board
  /\ lastOp' = "rejectedUndo"
  /\ UNCHANGED <<free, aux>>

RejectNext == LineMove \/ FreeMove \/ UndoMove \/ RejectedMove \/ RejectedUndo

RejectSpec == Init /\ [][RejectNext]_vars

\* C29: a Board operation that returns false (makeMove with a from or to square
\* outside 0..63, undoMove when the history is empty) leaves the bitboards, the
\* piece list, the game state and the history as they were before the call.
C29_RejectedLeavesBoard ==
  lastOp \in {"rejectedMove", "rejectedUndo"} =>
    /\ board.bbPieces = saved.bbPieces
    /\ board.bbSide = saved.bbSide
    /\ board.pieceList = saved.pieceList
    /\ board.gameState = saved.gameState
    /\ board.history = saved.history

\* a makeMove was rejected in the middle of a game
C29_Witness == lastOp = "rejectedMove" /\ Len(board.history.moves) = 3

\* ---------------------------------------------------------------------------
\* The killer moves of a search: KillerMoveOrdering and the cutoffs of minimax.
\* board is the position of a node of the search at ply 1 or 2; the scores that
\* the search below the node returns are inputs.
\* ---------------------------------------------------------------------------

\* KillerMoveOrdering.addKiller on the killer lists
addKiller(killers, move, ply) ==
  IF ~Falsy(move.capturedPiece) THEN killers
  ELSE IF \E i \in 1..Len(killers[ply]) :
            killers[ply][i].fromSquare = move.fromSquare /\ killers[ply][i].toSquare = move.toSquare
  THEN killers
  ELSE [killers EXCEPT ![ply] =
          IF Len(@) + 1 > 2
          THEN SubSeq(<<[fromSquare |-> move.fromSquare, toSquare |-> move.toSquare]>> \o @, 1, Len(@))
          ELSE <<[fromSquare |-> move.fromSquare, toSquare |-> move.toSquare]>> \o @]

\* the loop of minimax over the moves of a node from move i on: the result of
\* move cut is score, the result of any other move is 0; on a cutoff the move is
\* passed to addKiller and the loop ends
RECURSIVE killerLoop(_, _, _, _, _, _, _, _, _, _)
killerLoop(km, moves, i, alpha, beta, bestScore, isMaximizing, ply, cut, score) ==
  IF i > Len(moves) THEN [km EXCEPT !.cutoff = <<>>]
  ELSE IF isMaximizing
  THEN IF Max(alpha, Max(bestScore, IF i = cut THEN score ELSE 0)) >= beta
       THEN [killerMoves |-> addKiller(km.killerMoves, moves[i], ply),
             cutoff |-> <<[ply |-> ply, fromSquare |-> moves[i].fromSquare, toSquare |-> moves[i].toSquare]>>]
       ELSE killerLoop(km, moves, i + 1, Max(alpha, Max(bestScore, IF i = cut THEN score ELSE 0)), beta,
                       Max(bestScore, IF i = cut THEN score ELSE 0), isMaximizing, ply, cut, score)
  ELSE IF Min(beta, Min(bestScore, IF i = cut THEN score ELSE 0)) <= alpha
       THEN [killerMoves |-> addKiller(km.killerMoves, moves[i], ply),
             cutoff |-> <<[ply |-> ply, fromSquare |-> moves[i].fromSquare, toSquare |-> moves[i].toSquare]>>]
       ELSE killerLoop(km, moves, i + 1, alpha, Min(beta, Min(bestScore, IF i = cut THEN score ELSE 0)),
                       Min(bestScore, IF i = cut THEN score ELSE 0), isMaximizing, ply, cut, score)

\* the move takes a piece: the square it goes to is occupied, or it is a pawn
\* that changes file (en passant included)
IsCapture(b, fromSquare, toSquare) ==
  \/ b.pieceList[toSquare] # NONE
  \/ b.pieceList[fromSquare] = PAWN /\ fromSquare % 8 # toSquare % 8

\* the moves of the node whose results are drawn: the first, the last, and the captures
CutMoves(b, moves) ==
  {i \in 1..Len(moves) : i = 1 \/ i = Len(moves) \/ IsCapture(b, moves[i].fromSquare, moves[i].toSquare)}

\* e2e4 a7a6 e4e5 d7d5: White may capture e5xd6 en passant
EnPassantNode ==
  makeMove(makeMove(makeMove(makeMove(NewBoard, 12, 28, null).board, 48, 40, null).board, 28, 36, null).board,
           51, 35, null).board

\* g1f3 d7d5 f3e5 d8d6: White may capture e5xf7
CaptureNode ==
  makeMove(makeMove(makeMove(makeMove(NewBoard, 6, 21, null).board, 51, 35, null).board, 21, 36, null).board,
           59, 43, null).board

KillerInit ==
  /\ board \in {EnPassantNode, CaptureNode}
  /\ free = 1
  /\ lastOp = "init"
  /\ saved = board
  /\ PerftIdle
  /\ BotIdle
  /\ UiIdle

\* minimax searches the node at an odd ply as the minimizing side, at an even
\* ply as the maximizing side, with the window (-50, 50)
MinimaxNode ==
  /\ \E moves \in {getLegalMovesForColor(board, board.gameState.active_color)} :
       \E ply \in 1..MaxKillerPly, cut \in CutMoves(board, moves), score \in {-100, 100} :
         killerMoves' = killerLoop(killerMoves, moves, 1, -50, 50,
                                   IF ply % 2 = 0 THEN -Infinity ELSE Infinity,
                                   ply % 2 = 0, ply, cut, score)
  /\ UNCHANGED <<board, free, lastOp, saved, perftVars, botVars, uiVars>>

\* BotPlayer.makeMove clears the killer moves before it searches
ClearKillers ==
  /\ killerMoves' = NoKillers
  /\ UNCHANGED <<board, free, lastOp, saved, perftVars, botVars, uiVars>>

KillerNext == MinimaxNode \/ ClearKillers

KillerSpec == KillerInit /\ [][KillerNext]_vars

\* the killer lists hold at most two moves each, no two with the same squares,
\* and no capture of the position
KillersWellFormed(km, b) ==
  \A ply \in DOMAIN km.killerMoves :
    /\ Len(km.killerMoves[ply]) <= 2
    /\ \A i, j \in 1..Len(km.killerMoves[ply]) :
         i # j => \/ km.killerMoves[ply][i].fromSquare # km.killerMoves[ply][j].fromSquare
                  \/ km.killerMoves[ply][i].toSquare # km.killerMoves[ply][j].toSquare
    /\ \A i \in 1..Len(km.killerMoves[ply]) :
         ~IsCapture(b, km.killerMoves[ply][i].fromSquare, km.killerMoves[ply][i].toSquare)

\* a killer that the step adds is the move that caused the cutoff of the step, at its ply
AddedOnCutoff ==
  \A ply \in DOMAIN killerMoves.killerMoves :
    \A i \in 1..Len(killerMoves'.killerMoves[ply]) :
      (\A j \in 1..Len(killerMoves.killerMoves[ply]) :
          killerMoves.killerMoves[ply][j] # killerMoves'.killerMoves[ply][i])
        => killerMoves'.cutoff =
             <<[ply |-> ply, fromSquare |-> killerMoves'.killerMoves[ply][i].fromSquare,
                toSquare |-> killerMoves'.killerMoves[ply][i].toSquare]>>

\* C30: at every point of a search the killer list of each ply holds at most two
\* moves, no two of them with the same from and to squares, and none of them is a
\* capture (en-passant captures included); a move is added only when it caused a
\* cutoff at that ply.
C30_KillerLists == [][KillersWellFormed(killerMoves', board') /\ AddedOnCutoff]_vars

====
